---- MODULE Spec2Model ----
(***************************************************************************)
(* The static-site build pipeline of scripts/build.ts.                     *)
(*                                                                         *)
(* Strings that the code inspects are sequences of tokens: a slug or a     *)
(* title is a sequence of one-character tokens, a file name is a sequence  *)
(* such as <<"a", "-dark", ".png">>.  A path is a sequence of segments     *)
(* (the text between two "/"), and a reference string (an image path, a    *)
(* markdown href, the value of a generated href/src/srcset attribute) is   *)
(* a record [scheme, lead, segs]: the scheme prefix, the number of         *)
(* leading "/" characters and the path segments.                           *)
(***************************************************************************)
EXTENDS Integers, Sequences, FiniteSets, TLC

VARIABLES
    \* scripts/build.ts
    blogPosts,       \* the content array handed to buildSite (read-only)
    disk,            \* the filesystem below ROOT_DIR: [files, dirs]
    pc,              \* position of buildSite
    generatedPages,  \* the Map of buildSite, in insertion order
    postIndex,       \* index of the post the write loop is at
    checkIndex,      \* index of the page validateGeneratedReferences is at
    error,           \* the Error that ended the run, or NoError
    ops,             \* the filesystem calls of the current run, in order
    run,             \* number of the current buildSite invocation
    diskAtStart,     \* the filesystem when the current run started
    previousOutput,  \* the pages of the run before, when it succeeded
    \* a call of one of the pure functions of scripts/build.ts
    call,            \* [fn, arg, result] of the last call
    \* scripts/dev.ts
    buildProcess,    \* number of the child that is the build process, 0: null
    rebuildQueued,
    debounceTimer,   \* "null", "armed" or "fired"
    buildCount,
    changedPaths,
    children,        \* what became of each spawned child, by build number
    changes,         \* the change events the watchers delivered, in order
    startedAfter,    \* per spawned child, the number of changes before it
    started,         \* start() has called runBuild("startup")
    eventClients,    \* the responses of the open /__dev/events requests
    lastReload,      \* the last reload event written: [build, clients]
    requests         \* the timer's calls of runBuild: [reason, paths, after]

buildVars == <<blogPosts, disk, pc, generatedPages, postIndex, checkIndex, error,
               ops, run, diskAtStart, previousOutput>>

devVars == <<buildProcess, rebuildQueued, debounceTimer, buildCount, changedPaths,
             children, changes, startedAfter, started, eventClients, lastReload,
             requests>>

vars == <<buildVars, call, devVars>>

----------------------------------------------------------------------------
(* Bounds *)

MaxPosts == 2
MaxRuns == 2

----------------------------------------------------------------------------
(* Sequence helpers *)

Last(s) == s[Len(s)]
Front(s) == SubSeq(s, 1, Len(s) - 1)
Range(s) == {s[i] : i \in 1..Len(s)}
Min2(a, b) == IF a < b THEN a ELSE b

RECURSIVE Repeat(_, _)
Repeat(x, n) == IF n = 0 THEN <<>> ELSE <<x>> \o Repeat(x, n - 1)

RECURSIVE Flatten(_)
Flatten(ss) == IF ss = <<>> THEN <<>> ELSE Head(ss) \o Flatten(Tail(ss))

IsPrefix(p, s) == Len(p) <= Len(s) /\ SubSeq(s, 1, Len(p)) = p

----------------------------------------------------------------------------
(* Strings as token sequences *)

\* String.prototype.trim
RECURSIVE TrimLeft(_)
TrimLeft(s) == IF s # <<>> /\ Head(s) = " " THEN TrimLeft(Tail(s)) ELSE s

RECURSIVE TrimRight(_)
TrimRight(s) == IF s # <<>> /\ Last(s) = " " THEN TrimRight(Front(s)) ELSE s

Trim(s) == TrimRight(TrimLeft(s))

LowerAlnum == {"a", "b", "c", "0", "1"}

\* SLUG_PATTERN = /^[a-z0-9]+(?:-[a-z0-9]+)*$/
SLUG_PATTERN(s) ==
    /\ s # <<>>
    /\ \A i \in 1..Len(s) : s[i] \in LowerAlnum \cup {"-"}
    /\ s[1] # "-"
    /\ s[Len(s)] # "-"
    /\ \A i \in 1..(Len(s) - 1) : ~(s[i] = "-" /\ s[i + 1] = "-")

\* escapeHtml, token by token
escapeHtmlToken(t) ==
    CASE t = "&" -> "&amp;"
      [] t = "<" -> "&lt;"
      [] t = ">" -> "&gt;"
      [] t = "\"" -> "&quot;"
      [] t = "'" -> "&#39;"
      [] OTHER -> t

escapeHtml(s) == [i \in 1..Len(s) |-> escapeHtmlToken(s[i])]

\* encodeURIComponent, token by token: unreserved characters are kept
encodeURIComponentToken(t) ==
    CASE t = " " -> "%20"
      [] t = "/" -> "%2F"
      [] t = "&" -> "%26"
      [] OTHER -> t

encodeURIComponent(s) == [i \in 1..Len(s) |-> encodeURIComponentToken(s[i])]

----------------------------------------------------------------------------
(* Paths: sequences of segments *)

DOT == <<".">>
DOTDOT == <<"..">>
HOME_PAGE == << <<"index", ".html">> >>
BLOG_DIR == <<"blog">>
OSS_DIR == <<"oss">>
FAVICON == << <<"img">>, <<"favicon", ".ico">> >>

\* path.posix.normalize of a relative path: "." dropped, ".." pops a
\* preceding name and is kept when there is none to pop
RECURSIVE NormalizeInto(_, _)
NormalizeInto(acc, segs) ==
    IF segs = <<>> THEN acc
    ELSE LET s == Head(segs) IN
         IF s = DOT \/ s = <<>> THEN NormalizeInto(acc, Tail(segs))
         ELSE IF s = DOTDOT /\ acc # <<>> /\ Last(acc) # DOTDOT
              THEN NormalizeInto(Front(acc), Tail(segs))
              ELSE NormalizeInto(Append(acc, s), Tail(segs))

posixNormalize(segs) == NormalizeInto(<<>>, segs)

\* path.posix.dirname of a relative path ("." is the empty sequence)
posixDirname(p) == IF p = <<>> THEN <<>> ELSE Front(p)

\* path.posix.join of two relative paths
posixJoin(a, b) == posixNormalize(a \o b)

RECURSIVE CommonLen(_, _)
CommonLen(a, b) ==
    IF a = <<>> \/ b = <<>> \/ Head(a) # Head(b) THEN 0
    ELSE 1 + CommonLen(Tail(a), Tail(b))

\* path.posix.relative(from, to) for two paths below the working directory
posixRelative(from, to) ==
    LET f == posixNormalize(from)
        t == posixNormalize(to)
        c == CommonLen(f, t)
    IN  Repeat(DOTDOT, Len(f) - c) \o SubSeq(t, c + 1, Len(t))

----------------------------------------------------------------------------
(* Reference strings *)

\* scheme "": a path; "none": the field is undefined
Ref(scheme, lead, segs) == [scheme |-> scheme, lead |-> lead, segs |-> segs]
Undefined == Ref("none", 0, <<>>)
LocalRef(segs) == Ref("", 0, segs)
RootRef(segs) == Ref("", 1, segs)

\* a JavaScript string is falsy when undefined or empty
IsFalsy(r) == r.scheme = "none" \/ (r.scheme = "" /\ r.lead = 0 /\ r.segs = <<>>)

\* /^https?:\/\//.test(value), value.startsWith("http://") || ("https://")
IsHttp(r) == r.scheme \in {"http", "https"}

\* normalizeRootRelative: value.replace(/^\/+/, "")
normalizeRootRelative(r) == IF r.scheme = "" THEN [r EXCEPT !.lead = 0] ELSE r

\* the attribute value escapeHtml leaves of a reference
escapeHtmlRef(r) ==
    [r EXCEPT !.segs = [i \in 1..Len(r.segs) |-> escapeHtml(r.segs[i])]]

\* the path is taken from the page, not from its directory
relativeHrefFromPage(fromOutputPath, toOutputPath) ==
    LET relativePath == posixRelative(fromOutputPath, toOutputPath)
    IN  IF relativePath = <<>> THEN HOME_PAGE ELSE relativePath

relativeHref(fromOutputPath, toOutputPath) ==
    LET fromDir == posixDirname(fromOutputPath)
        relativePath == posixRelative(fromDir, toOutputPath)
    IN  IF relativePath = <<>> THEN HOME_PAGE ELSE relativePath

\* the target's path below the output root is used as it is
linkToFromRoot(outputPath, targetOutputPath) == LocalRef(targetOutputPath)

\* createRenderTools(outputPath).linkTo
linkTo(outputPath, targetOutputPath) ==
    LocalRef(relativeHref(outputPath, targetOutputPath))

\* createRenderTools(outputPath).assetTo
assetTo(outputPath, rootRelativePath) ==
    LocalRef(relativeHref(outputPath, normalizeRootRelative(rootRelativePath).segs))

blogPostOutputPath(slug) ==
    << BLOG_DIR, encodeURIComponent(slug), <<"index", ".html">> >>

----------------------------------------------------------------------------
(* Content records (content/blog-types) *)

\* A text (a paragraph, a summary, a piece of code) is a sequence of
\* pieces: runs of plain text, runs of white space and [label](href) links
TextPiece == [kind |-> "text", href |-> Undefined]
SpacePiece == [kind |-> "space", href |-> Undefined]
LinkPiece(href) == [kind |-> "link", href |-> href]

\* an optional caption that is left out
NoCaption == <<"undefined">>

Block(type, text, level, src, alt, language, url, caption) ==
    [type |-> type, text |-> text, level |-> level, src |-> src, alt |-> alt,
     language |-> language, url |-> url, caption |-> caption]

Paragraph(text) ==
    Block("paragraph", text, 0, Undefined, <<>>, "", Undefined, NoCaption)
Heading(level, text) ==
    Block("heading", text, level, Undefined, <<>>, "", Undefined, NoCaption)
Image(src, alt, caption) ==
    Block("image", <<>>, 0, src, alt, "", Undefined, caption)
Code(language, code, caption) ==
    Block("code", code, 0, Undefined, <<>>, language, Undefined, caption)
Tweet(url, caption) ==
    Block("tweet", <<>>, 0, Undefined, <<>>, "", url, caption)

Post(slug, title, summary, publishedAt, heroImage, tags, githubUrl, blocks) ==
    [slug |-> slug, title |-> title, summary |-> summary,
     publishedAt |-> publishedAt, heroImage |-> heroImage, tags |-> tags,
     githubUrl |-> githubUrl, blocks |-> blocks]

\* the hrefs of the [label](href) matches of a text, left to right
RECURSIVE LinkHrefs(_)
LinkHrefs(text) ==
    IF text = <<>> THEN <<>>
    ELSE (IF Head(text).kind = "link" THEN <<Head(text).href>> ELSE <<>>)
         \o LinkHrefs(Tail(text))

----------------------------------------------------------------------------
(* Dates: publishedAt is a string, one token per character                 *)

DigitChars == <<"0", "1", "2", "3", "4", "5", "6", "7", "8", "9">>

\* /\d/
IsDigit(c) == \E i \in 1..10 : DigitChars[i] = c

DigitValue(c) == (CHOOSE i \in 1..10 : DigitChars[i] = c) - 1

\* the number a string of digits denotes
RECURSIVE NumberOf(_)
NumberOf(digits) ==
    IF digits = <<>> THEN 0
    ELSE 10 * NumberOf(Front(digits)) + DigitValue(Last(digits))

\* String(n).padStart(width, "0")
RECURSIVE PadStart(_, _)
PadStart(n, width) ==
    IF width = 0 THEN <<>>
    ELSE Append(PadStart(n \div 10, width - 1), DigitChars[(n % 10) + 1])

\* /^\d{4}-\d{2}-\d{2}$/
MatchesDateForm(str) ==
    /\ Len(str) = 10
    /\ str[5] = "-" /\ str[8] = "-"
    /\ \A i \in {1, 2, 3, 4, 6, 7, 9, 10} : IsDigit(str[i])

IsLeapYear(y) == (y % 4 = 0 /\ y % 100 # 0) \/ y % 400 = 0

DaysInMonth(y, m) ==
    CASE m = 2 -> IF IsLeapYear(y) THEN 29 ELSE 28
      [] m \in {4, 6, 9, 11} -> 30
      [] OTHER -> 31

\* the invalid date: getTime() is NaN
NaD == <<0, 0, 0>>

\* a day past the month's end carried into the next month
DateParseCarry(d) ==
    IF d[2] \notin 1..12 \/ d[3] \notin 1..31 THEN NaD
    ELSE IF d[3] <= DaysInMonth(d[1], d[2]) THEN d
    ELSE IF d[2] = 12 THEN <<d[1] + 1, 1, d[3] - DaysInMonth(d[1], d[2])>>
    ELSE <<d[1], d[2] + 1, d[3] - DaysInMonth(d[1], d[2])>>

\* new Date(`${trimmed}T00:00:00.000Z`) for a string of the date form, as
\* <<year, month, day>> in UTC: month 01-12 and day 01-31 are taken; a day
\* past the month's end is carried into the next month by one JavaScript
\* engine and gives the invalid date in another, so both are outcomes
DateParseOutcomes(trimmed) ==
    LET d == <<NumberOf(SubSeq(trimmed, 1, 4)), NumberOf(SubSeq(trimmed, 6, 7)),
               NumberOf(SubSeq(trimmed, 9, 10))>>
    IN  IF DateParseCarry(d) = d THEN {d}
        ELSE {DateParseCarry(d), NaD}

\* parsedDate.toISOString().slice(0, 10), for the years 0000 to 9999
toISODateString(parsedDate) ==
    PadStart(parsedDate[1], 4) \o <<"-">> \o PadStart(parsedDate[2], 2)
        \o <<"-">> \o PadStart(parsedDate[3], 2)

\* the re-serialised date is not compared with the string
parsePublishedAtWithNoRoundTrip(publishedAt, parsedDate) ==
    IF ~MatchesDateForm(Trim(publishedAt)) THEN NaD ELSE parsedDate

\* parsePublishedAt when new Date() gives parsedDate: NaD stands for null
parsePublishedAtWith(publishedAt, parsedDate) ==
    LET trimmed == Trim(publishedAt) IN
    IF ~MatchesDateForm(trimmed) THEN NaD
    ELSE IF parsedDate = NaD THEN NaD
    ELSE IF toISODateString(parsedDate) # trimmed THEN NaD
    ELSE parsedDate

\* parsePublishedAt(publishedAt) # null
parsePublishedAt(publishedAt) ==
    /\ MatchesDateForm(Trim(publishedAt))
    /\ \E parsedDate \in DateParseOutcomes(Trim(publishedAt)) :
          parsePublishedAtWith(publishedAt, parsedDate) # NaD

\* formatPublishedAt: DD/MM/YYYY, or the string itself when it does not parse
formatPublishedAt(publishedAt) ==
    IF ~parsePublishedAt(publishedAt) THEN publishedAt
    ELSE LET parsedDate == CHOOSE t \in DateParseOutcomes(Trim(publishedAt)) :
                              parsePublishedAtWith(publishedAt, t) # NaD
         IN  PadStart(parsedDate[3], 2) \o <<"/">> \o PadStart(parsedDate[2], 2)
                 \o <<"/">> \o PadStart(parsedDate[1], 4)

----------------------------------------------------------------------------
(* Code languages and tweet URLs *)

\* language.trim().toLowerCase() on the language strings of the model
TrimLower(language) ==
    CASE language = "TS" -> "ts"
      [] language = " ts " -> "ts"
      [] language = " " -> ""
      [] language = "Constructor" -> "constructor"
      [] language = "toString" -> "tostring"
      [] OTHER -> language

BLOG_CODE_LANGUAGE_ALIASES ==
    [ts |-> "ts", typescript |-> "ts", tsx |-> "tsx", js |-> "js",
     javascript |-> "js", jsx |-> "jsx", json |-> "json", bash |-> "bash",
     sh |-> "bash", shell |-> "bash"]

\* the members the alias table, an object literal, inherits from
\* Object.prototype: neither is a string, both are truthy
ObjectPrototype ==
    ("constructor" :> "function Object") @@ ("__proto__" :> "Object.prototype")
    @@ ("toString" :> "function toString")

IsString(value) == \A key \in DOMAIN ObjectPrototype : value # ObjectPrototype[key]

\* normalizeBlogCodeLanguage: BLOG_CODE_LANGUAGE_ALIASES[normalizedLanguage]
\* ?? null is a property lookup; "" stands for null
normalizeBlogCodeLanguage(language) ==
    IF TrimLower(language) \in DOMAIN BLOG_CODE_LANGUAGE_ALIASES
    THEN BLOG_CODE_LANGUAGE_ALIASES[TrimLower(language)]
    ELSE IF TrimLower(language) \in DOMAIN ObjectPrototype
    THEN ObjectPrototype[TrimLower(language)]
    ELSE ""

TWEET_EMBED_HOSTS ==
    {<<"twitter.com">>, <<"www.twitter.com">>, <<"mobile.twitter.com">>,
     <<"x.com">>, <<"www.x.com">>, <<"mobile.x.com">>}

Digits == {"0", "1"}
IsDigits(seg) == seg # <<>> /\ \A i \in 1..Len(seg) : seg[i] \in Digits
IsUserName(seg) ==
    seg # <<>> /\ \A i \in 1..Len(seg) : seg[i] \in LowerAlnum \cup {"_"}

\* /^\/(?:i\/web\/)?(?:[A-Za-z0-9_]+\/)?status\/\d+(?:\/.*)?$/ on the
\* segments of the URL's pathname
StatusTail(p) == Len(p) >= 2 /\ p[1] = <<"status">> /\ IsDigits(p[2])

TWEET_STATUS_PATH_PATTERN(p) ==
    LET rest == IF Len(p) >= 2 /\ p[1] = <<"i">> /\ p[2] = <<"web">>
                THEN SubSeq(p, 3, Len(p)) ELSE p
    IN  \/ StatusTail(p)
        \/ StatusTail(rest)
        \/ Len(p) >= 1 /\ IsUserName(p[1]) /\ StatusTail(Tail(p))
        \/ Len(rest) >= 1 /\ IsUserName(rest[1]) /\ StatusTail(Tail(rest))

\* a URL with a query and a fragment; its first segment is its host
Url(scheme, segs, search, hash) ==
    [scheme |-> scheme, lead |-> 0, segs |-> segs, search |-> search, hash |-> hash]

\* String.prototype.toLowerCase on the tokens that have capitals
toLowerCase(token) ==
    CASE token = "X.COM" -> "x.com"
      [] token = "Twitter.com" -> "twitter.com"
      [] token = "HTTP" -> "http"
      [] token = "HTTPS" -> "https"
      [] OTHER -> token

\* parsedUrl.hostname.toLowerCase()
Hostname(url) == [i \in 1..Len(url.segs[1]) |-> toLowerCase(url.segs[1][i])]

\* the host is not looked at
normalizeTweetEmbedUrlAnyHost(url) ==
    /\ toLowerCase(url.scheme) \in {"http", "https"}
    /\ url.segs # <<>>
    /\ TWEET_STATUS_PATH_PATTERN(Tail(url.segs))

\* normalizeTweetEmbedUrl(value) # null; new URL() lower-cases the scheme
normalizeTweetEmbedUrl(url) ==
    /\ toLowerCase(url.scheme) \in {"http", "https"}
    /\ url.segs # <<>>
    /\ Hostname(url) \in TWEET_EMBED_HOSTS
    /\ TWEET_STATUS_PATH_PATTERN(Tail(url.segs))

\* the canonical URL normalizeTweetEmbedUrl returns: protocol https, search
\* and hash emptied, the host as the parser lower-cased it
canonicalTweetUrl(url) == Ref("https", 0, <<Hostname(url)>> \o Tail(url.segs))

----------------------------------------------------------------------------
(* Image identities *)

IsExtToken(t) == t \in {".png", ".jpg", ".svg", ".gif", ".html", ".ico"}

\* normalizeImagePathIdentity: the URL's pathname or the path, without
\* leading slashes and without the extension of the last segment
normalizeImagePathIdentity(imagePath) ==
    LET segs == IF IsHttp(imagePath) THEN Tail(imagePath.segs) ELSE imagePath.segs
        name == IF segs = <<>> THEN <<>> ELSE Last(segs)
    IN  IF segs = <<>> THEN <<>>
        ELSE IF Len(name) >= 2 /\ IsExtToken(Last(name))
             THEN Append(Front(segs), Front(name))
             ELSE segs

\* imagePathThemeVariant: "dark", "light" or "" for null
imagePathThemeVariant(imagePath) ==
    LET id == normalizeImagePathIdentity(imagePath) IN
    IF id # <<>> /\ Last(id) # <<>> /\ Last(Last(id)) = "-dark" THEN "dark"
    ELSE IF id # <<>> /\ Last(id) # <<>> /\ Last(Last(id)) = "-light" THEN "light"
    ELSE ""

\* normalizeThemeImagePathIdentity: the identity without -dark or -light
normalizeThemeImagePathIdentity(imagePath) ==
    LET id == normalizeImagePathIdentity(imagePath) IN
    IF imagePathThemeVariant(imagePath) # ""
    THEN Append(Front(id), Front(Last(id)))
    ELSE id

\* findFirstImageBlock: the index of the first image block, 0 when none
RECURSIVE FirstImageFrom(_, _)
FirstImageFrom(blocks, i) ==
    IF i > Len(blocks) THEN 0
    ELSE IF blocks[i].type = "image" THEN i
    ELSE FirstImageFrom(blocks, i + 1)

findFirstImageBlock(blocks) == FirstImageFrom(blocks, 1)

OrLight(v) == IF v = "" THEN "light" ELSE v

\* resolveBlogHeroThemeImagePair(post) # null
resolveBlogHeroThemeImagePair(post) ==
    LET i == findFirstImageBlock(post.blocks) IN
    /\ ~IsFalsy(post.heroImage)
    /\ i # 0
    /\ OrLight(imagePathThemeVariant(post.heroImage))
         # OrLight(imagePathThemeVariant(post.blocks[i].src))
    /\ normalizeThemeImagePathIdentity(post.heroImage)
         = normalizeThemeImagePathIdentity(post.blocks[i].src)

\* the first image block is not looked at
shouldRenderBlogHeroImageAlways(post) == ~IsFalsy(post.heroImage)

shouldRenderBlogHeroImage(post) ==
    LET i == findFirstImageBlock(post.blocks) IN
    /\ ~IsFalsy(post.heroImage)
    /\ (i = 0 \/ normalizeImagePathIdentity(post.heroImage)
                   # normalizeImagePathIdentity(post.blocks[i].src))

----------------------------------------------------------------------------
(* The filesystem below ROOT_DIR *)

\* the contents of a file: a generated page, or anything else
\* the share metadata of a page's <head>: the twitter:card value and the
\* og:image and twitter:image URLs, Undefined when the tag is not emitted
SocialTags(twitterCard, ogImage, twitterImage) ==
    [twitterCard |-> twitterCard, ogImage |-> ogImage, twitterImage |-> twitterImage]
NoSocialTags == SocialTags("", Undefined, Undefined)

FileData(kind, content, refs) ==
    [kind |-> kind, content |-> content, refs |-> refs, meta |-> NoSocialTags]
ImageBytes == FileData("image", <<>>, <<>>)
StalePage == FileData("stale", <<>>, <<>>)

RECURSIVE Prefixes(_)
Prefixes(p) == IF p = <<>> THEN {} ELSE {p} \cup Prefixes(Front(p))

\* fs.stat(path.join(ROOT_DIR, p)): "file", "dir", or "absent" when it throws
Stat(d, p) ==
    LET n == posixNormalize(p) IN
    IF n \in DOMAIN d.files THEN "file"
    ELSE IF n = <<>> \/ n \in d.dirs \/ n = <<DOTDOT>> THEN "dir"
    ELSE "absent"

\* rm(path.join(ROOT_DIR, top), { recursive: true, force: true })
RmRecursive(d, top) ==
    LET keep == {p \in DOMAIN d.files : p[1] # top} IN
    [files |-> [p \in keep |-> d.files[p]],
     dirs |-> {p \in d.dirs : p[1] # top}]

\* mkdir(dirname, { recursive: true })
MkdirRecursive(d, dir) == [d EXCEPT !.dirs = @ \cup Prefixes(dir)]

\* writeFile(path, data): creates or replaces the file
WriteFile(d, p, data) ==
    [d EXCEPT !.files = [q \in DOMAIN @ \cup {p} |-> IF q = p THEN data ELSE @[q]]]

\* writePage(outputPath, htmlContent)
writePage(d, outputPath, htmlContent) ==
    WriteFile(MkdirRecursive(d, posixDirname(outputPath)), outputPath, htmlContent)

Op(name, path, phase) == [op |-> name, path |-> path, phase |-> phase]

writePageOps(outputPath) ==
    << Op("mkdir", posixDirname(outputPath), "write"),
       Op("writeFile", outputPath, "write") >>

----------------------------------------------------------------------------
(* Errors *)

Err(kind, slug, field, index, page, attr, ref) ==
    [kind |-> kind, slug |-> slug, field |-> field, index |-> index,
     page |-> page, attr |-> attr, ref |-> ref]

NoError == Err("none", <<>>, "", 0, <<>>, "", Undefined)

\* an error of validateBlogPosts; index is the block or tag index, from 0
PostErr(kind, slug, field, index) == Err(kind, slug, field, index, <<>>, "", Undefined)

\* a validation step: the error it throws, and the files it stat()s
Step(err, stats) == [err |-> err, stats |-> stats]
Pass == Step(NoError, <<>>)
Throw(err) == Step(err, <<>>)

\* run b after a unless a threw
Then(a, b) ==
    IF a.err.kind # "none" THEN a
    ELSE Step(b.err, a.stats \o b.stats)

----------------------------------------------------------------------------
(* Validation *)

\* assertNonEmpty on a string of tokens
assertNonEmpty(value, fieldName, slug, index) ==
    IF Trim(value) = <<>> THEN Throw(PostErr("missing-field", slug, fieldName, index))
    ELSE Pass

\* assertNonEmpty on a text
assertNonEmptyText(text, fieldName, slug, index) ==
    IF \A i \in 1..Len(text) : text[i].kind = "space"
    THEN Throw(PostErr("missing-field", slug, fieldName, index))
    ELSE Pass

assertCaption(caption, slug, index) ==
    IF caption # NoCaption
    THEN assertNonEmpty(caption, "blocks.caption", slug, index)
    ELSE Pass

validateLocalImagePath(imagePath, slug, fieldName, index) ==
    IF IsHttp(imagePath) THEN Pass
    ELSE IF normalizeRootRelative(imagePath).segs = <<>>
    THEN Throw(PostErr("empty-image-path", slug, fieldName, index))
    ELSE Pass

\* new URL(href) succeeds with protocol http: or https: (the parser
\* lower-cases the scheme)
ParsesAsHttpUrl(href) ==
    href.scheme \in {"http", "https", "HTTP", "HTTPS"} /\ href.segs # <<>>

validateParagraphLink(href, slug, fieldName, index) ==
    IF href.scheme = "" /\ href.lead = 0 /\ href.segs = <<>>
    THEN Throw(PostErr("empty-link", slug, fieldName, index))
    ELSE IF \/ (href.scheme = "" /\ href.lead >= 1)
            \/ href.scheme \in {"#", "mailto", "tel"}
         THEN Pass
    ELSE IF ParsesAsHttpUrl(href) THEN Pass
    ELSE Throw(PostErr("invalid-link", slug, fieldName, index))

\* isFile() is not asked
assertLocalImageExistsAnyKind(d, imagePath, slug, fieldName, index) ==
    LET p == posixNormalize(normalizeRootRelative(imagePath).segs)
    IN  Step(IF Stat(d, p) = "absent"
             THEN PostErr("image-not-found", slug, fieldName, index)
             ELSE NoError,
             <<p>>)

assertLocalImageExists(d, imagePath, slug, fieldName, index) ==
    LET p == posixNormalize(normalizeRootRelative(imagePath).segs)
        st == Stat(d, p)
    IN  Step(IF st = "absent" THEN PostErr("image-not-found", slug, fieldName, index)
             ELSE IF st # "file" THEN PostErr("image-not-file", slug, fieldName, index)
             ELSE NoError,
             <<p>>)

RECURSIVE validateLinks(_, _, _, _)
validateLinks(hrefs, slug, fieldName, index) ==
    IF hrefs = <<>> THEN Pass
    ELSE Then(validateParagraphLink(Head(hrefs), slug, fieldName, index),
              validateLinks(Tail(hrefs), slug, fieldName, index))

RECURSIVE validateTags(_, _, _)
validateTags(tags, slug, i) ==
    IF i > Len(tags) THEN Pass
    ELSE Then(assertNonEmpty(tags[i], "tags", slug, i - 1),
              validateTags(tags, slug, i + 1))

\* the body of the loop over post.blocks, for the block of index i - 1
validateBlock(d, block, slug, i) ==
    CASE block.type = "paragraph" ->
           Then(assertNonEmptyText(block.text, "blocks.text", slug, i - 1),
                validateLinks(LinkHrefs(block.text), slug, "blocks.text", i - 1))
      [] block.type = "heading" ->
           Then(assertNonEmptyText(block.text, "blocks.text", slug, i - 1),
                IF block.level \notin {2, 3, 4}
                THEN Throw(PostErr("invalid-heading-level", slug, "blocks.level", i - 1))
                ELSE Pass)
      [] block.type = "code" ->
           Then(IF TrimLower(block.language) = ""
                THEN Throw(PostErr("missing-field", slug, "blocks.language", i - 1))
                ELSE Pass,
           Then(assertNonEmptyText(block.text, "blocks.code", slug, i - 1),
           Then(IF normalizeBlogCodeLanguage(block.language) = ""
                THEN Throw(PostErr("unsupported-language", slug, "blocks.language", i - 1))
                ELSE Pass,
                assertCaption(block.caption, slug, i - 1))))
      [] block.type = "tweet" ->
           Then(IF IsFalsy(block.url)
                THEN Throw(PostErr("missing-field", slug, "blocks.url", i - 1))
                ELSE Pass,
           Then(IF ~normalizeTweetEmbedUrl(block.url)
                THEN Throw(PostErr("invalid-tweet-url", slug, "blocks.url", i - 1))
                ELSE Pass,
                assertCaption(block.caption, slug, i - 1)))
      [] OTHER ->
           Then(IF IsFalsy(block.src)
                THEN Throw(PostErr("missing-field", slug, "blocks.src", i - 1))
                ELSE Pass,
           Then(assertNonEmpty(block.alt, "blocks.alt", slug, i - 1),
           Then(assertCaption(block.caption, slug, i - 1),
           Then(validateLocalImagePath(block.src, slug, "blocks.src", i - 1),
                IF IsHttp(block.src) THEN Pass
                ELSE assertLocalImageExists(d, block.src, slug, "blocks.src", i - 1)))))

RECURSIVE validateBlocks(_, _, _, _)
validateBlocks(d, blocks, slug, i) ==
    IF i > Len(blocks) THEN Pass
    ELSE Then(validateBlock(d, blocks[i], slug, i),
              validateBlocks(d, blocks, slug, i + 1))

\* the check is left out, as in the build script before it was added
validateShareImageAbsent(post) == Pass

\* the share-metadata-image check
validateShareImage(post) ==
    IF IsFalsy(post.heroImage) /\ \A i \in 1..Len(post.blocks) : post.blocks[i].type # "image"
    THEN Throw(PostErr("no-share-image", post.slug, "heroImage", 0))
    ELSE Pass

\* the body of the loop over postEntries
validatePost(d, post, seenSlugs) ==
    Then(assertNonEmpty(post.slug, "slug", post.slug, 0),
    Then(assertNonEmpty(post.title, "title", post.slug, 0),
    Then(assertNonEmptyText(post.summary, "summary", post.slug, 0),
    Then(assertNonEmpty(post.publishedAt, "publishedAt", post.slug, 0),
    Then(IF ~SLUG_PATTERN(post.slug)
         THEN Throw(PostErr("invalid-slug", post.slug, "slug", 0))
         ELSE Pass,
    Then(IF post.slug \in seenSlugs
         THEN Throw(PostErr("duplicate-slug", post.slug, "slug", 0))
         ELSE Pass,
    Then(IF ~parsePublishedAt(post.publishedAt)
         THEN Throw(PostErr("invalid-publishedAt", post.slug, "publishedAt", 0))
         ELSE Pass,
    Then(validateTags(post.tags, post.slug, 1),
    Then(IF IsFalsy(post.heroImage) THEN Pass
         ELSE Then(validateLocalImagePath(post.heroImage, post.slug, "heroImage", 0),
                   IF IsHttp(post.heroImage) THEN Pass
                   ELSE assertLocalImageExists(d, post.heroImage, post.slug,
                                               "heroImage", 0)),
    Then(IF post.blocks = <<>>
         THEN Throw(PostErr("no-blocks", post.slug, "blocks", 0))
         ELSE Pass,
    Then(validateShareImage(post),
         validateBlocks(d, post.blocks, post.slug, 1))))))))))))

\* the slugs seen are not recorded
RECURSIVE validateFromForgetful(_, _, _, _)
validateFromForgetful(d, postEntries, i, seenSlugs) ==
    IF i > Len(postEntries) THEN Pass
    ELSE Then(validatePost(d, postEntries[i], seenSlugs),
              validateFromForgetful(d, postEntries, i + 1, seenSlugs))

RECURSIVE validateFrom(_, _, _, _)
validateFrom(d, postEntries, i, seenSlugs) ==
    IF i > Len(postEntries) THEN Pass
    ELSE Then(validatePost(d, postEntries[i], seenSlugs),
              validateFrom(d, postEntries, i + 1, seenSlugs \cup {postEntries[i].slug}))

validateBlogPosts(d, postEntries) == validateFrom(d, postEntries, 1, {})

----------------------------------------------------------------------------
(* Rendering: a page is the content it is rendered from and its           *)
(* href/src/srcset attribute values in document order                      *)

Attr(name, ref) == [attr |-> name, ref |-> ref]

SITE_HOST == <<"elizibin.com">>

\* outputPathToPublicPath: the directory segments of the public pathname
outputPathToPublicPath(outputPath) ==
    IF outputPath = HOME_PAGE THEN <<>>
    ELSE IF Last(outputPath) = <<"index", ".html">> THEN Front(outputPath)
    ELSE outputPath

toAbsoluteSiteUrl(pathSegs) == Ref("https", 0, <<SITE_HOST>> \o pathSegs)

\* toAbsoluteShareImageUrl
toAbsoluteShareImageUrl(imagePath) ==
    IF IsHttp(imagePath) THEN imagePath
    ELSE toAbsoluteSiteUrl(normalizeRootRelative(imagePath).segs)

\* the share tags of renderHead; imagePath is socialMeta?.imagePath
renderSocialTags(imagePath) ==
    LET socialImageUrl == IF IsFalsy(imagePath) THEN Undefined
                          ELSE toAbsoluteShareImageUrl(imagePath)
        twitterCard == IF IsFalsy(socialImageUrl) THEN "summary"
                       ELSE "summary_large_image"
    IN  SocialTags(twitterCard,
                   IF IsFalsy(socialImageUrl) THEN Undefined
                   ELSE escapeHtmlRef(socialImageUrl),
                   IF IsFalsy(socialImageUrl) THEN Undefined
                   ELSE escapeHtmlRef(socialImageUrl))

\* the href and src attributes of renderHead
renderHead(outputPath) ==
    << Attr("href", escapeHtmlRef(toAbsoluteSiteUrl(outputPathToPublicPath(outputPath)))),
       Attr("href", assetTo(outputPath, LocalRef(FAVICON))),
       Attr("href", Ref("https", 0, << <<"fonts.googleapis.com">>, <<"css">> >>)),
       Attr("src", Ref("https", 0, << <<"cdn.tailwindcss.com">> >>)) >>

renderHeader(outputPath, headingLinksHome) ==
    IF headingLinksHome THEN << Attr("href", linkTo(outputPath, HOME_PAGE)) >>
    ELSE <<>>

renderLayout(outputPath, headingLinksHome, content) ==
    renderHead(outputPath) \o renderHeader(outputPath, headingLinksHome) \o content

\* markdownLinkToHtml: escapeHtml(href.trim()), whatever the href is
markdownLinkToHtml(href) == Attr("href", escapeHtmlRef(href))

renderParagraphWithInlineLinks(text) ==
    LET hrefs == LinkHrefs(text) IN
    [i \in 1..Len(hrefs) |-> markdownLinkToHtml(hrefs[i])]

renderGithubIconLink(githubUrl) == Attr("href", escapeHtmlRef(githubUrl))

\* one <li> of renderHomeBlogList
renderHomeBlogItem(outputPath, post) ==
    << Attr("href", linkTo(outputPath, blogPostOutputPath(post.slug))) >>
    \o (IF IsFalsy(post.githubUrl) THEN <<>>
        ELSE << renderGithubIconLink(post.githubUrl) >>)
    \o renderParagraphWithInlineLinks(post.summary)

renderHomeBlogList(outputPath, blogEntries) ==
    Flatten([i \in 1..Len(blogEntries) |-> renderHomeBlogItem(outputPath, blogEntries[i])])

renderHomePage(outputPath, blogEntries) ==
    [FileData("page", blogEntries,
        renderLayout(outputPath, FALSE,
            << Attr("href", Ref("https", 0, << <<"www.nearform.com">> >>)) >>
            \o renderHomeBlogList(outputPath, blogEntries)))
     EXCEPT !.meta = renderSocialTags(Undefined)]

\* resolveImageSource for a path that is not falsy
resolveImageSource(outputPath, imagePath) ==
    IF IsHttp(imagePath) THEN imagePath ELSE assetTo(outputPath, imagePath)

\* highlightCode throws for a language without a canonical id
HighlightThrows(block) ==
    block.type = "code" /\ normalizeBlogCodeLanguage(block.language) = ""

\* normalizedLanguage.toUpperCase() throws a TypeError when the truthy
\* normalizedLanguage is not a string
LabelThrows(block) ==
    /\ block.type = "code"
    /\ normalizeBlogCodeLanguage(block.language) # ""
    /\ ~IsString(normalizeBlogCodeLanguage(block.language))

\* what rendering the block throws
RenderBlockError(block) ==
    IF LabelThrows(block) THEN "type-error"
    ELSE IF HighlightThrows(block) THEN "unsupported-language"
    ELSE "none"

renderBlogBlock(outputPath, block) ==
    CASE block.type = "paragraph" -> renderParagraphWithInlineLinks(block.text)
      [] block.type = "heading" -> <<>>
      [] block.type = "code" -> <<>>
      [] block.type = "tweet" ->
           IF normalizeTweetEmbedUrl(block.url)
           THEN << Attr("href", escapeHtmlRef(canonicalTweetUrl(block.url))) >>
           ELSE <<>>
      [] OTHER ->
           IF IsFalsy(block.src) THEN <<>>
           ELSE << Attr("src", escapeHtmlRef(resolveImageSource(outputPath, block.src))) >>

renderBlogBlocks(outputPath, blocks) ==
    Flatten([i \in 1..Len(blocks) |-> renderBlogBlock(outputPath, blocks[i])])

\* the <figure> renderBlogPostPage puts above the blocks
heroImageMarkup(outputPath, post) ==
    LET i == findFirstImageBlock(post.blocks)
        heroIsLight == OrLight(imagePathThemeVariant(post.heroImage)) = "light"
    IN  IF resolveBlogHeroThemeImagePair(post) /\ shouldRenderBlogHeroImage(post)
        THEN LET lightPath == IF heroIsLight THEN post.heroImage ELSE post.blocks[i].src
                 darkPath == IF heroIsLight THEN post.blocks[i].src ELSE post.heroImage
             IN  << Attr("srcset", escapeHtmlRef(resolveImageSource(outputPath, darkPath))),
                    Attr("src", escapeHtmlRef(resolveImageSource(outputPath, lightPath))) >>
        ELSE IF ~IsFalsy(post.heroImage) /\ shouldRenderBlogHeroImage(post)
        THEN << Attr("src", escapeHtmlRef(resolveImageSource(outputPath, post.heroImage))) >>
        ELSE <<>>

\* post.blocks without the block the hero <picture> is paired with
blogBlocksToRender(post) ==
    LET i == findFirstImageBlock(post.blocks) IN
    IF resolveBlogHeroThemeImagePair(post)
    THEN SubSeq(post.blocks, 1, i - 1) \o SubSeq(post.blocks, i + 1, Len(post.blocks))
    ELSE post.blocks

\* only heroImage is looked at
resolveBlogShareImageHeroOnly(post) == post.heroImage

\* resolveBlogShareImage(post)?.path, Undefined for null
resolveBlogShareImage(post) ==
    LET i == findFirstImageBlock(post.blocks) IN
    IF ~IsFalsy(post.heroImage) THEN post.heroImage
    ELSE IF i = 0 THEN Undefined
    ELSE post.blocks[i].src

renderBlogPostPage(outputPath, post) ==
    [FileData("page", <<post>>,
        renderLayout(outputPath, TRUE,
            << Attr("href", linkTo(outputPath, HOME_PAGE)) >>
            \o heroImageMarkup(outputPath, post)
            \o renderBlogBlocks(outputPath, blogBlocksToRender(post))
            \o (IF \E i \in 1..Len(post.blocks) : post.blocks[i].type = "tweet"
                THEN << Attr("src", Ref("https", 0, << <<"platform.twitter.com">>,
                                                       <<"widgets", ".js">> >>)) >>
                ELSE <<>>)))
     EXCEPT !.meta = renderSocialTags(resolveBlogShareImage(post))]

\* renderBlogPostPage throws when the highlighter does
RenderThrows(post) ==
    \E i \in 1..Len(post.blocks) : RenderBlockError(post.blocks[i]) # "none"

\* the error of the first block that throws
RenderError(post) ==
    LET i == CHOOSE k \in 1..Len(post.blocks) :
                /\ RenderBlockError(post.blocks[k]) # "none"
                /\ \A h \in 1..(k - 1) : RenderBlockError(post.blocks[h]) = "none"
    IN  RenderBlockError(post.blocks[i])

----------------------------------------------------------------------------
(* The reference-integrity check *)

isSkippableReference(reference) ==
    reference.scheme \in {"http", "https", "mailto", "tel", "data", "#"}

\* the path segments of a reference that is read as a path
ReferencePath(reference) ==
    IF reference.scheme = "" THEN reference.segs
    ELSE << <<reference.scheme, ":">> >> \o reference.segs

\* resolvedPath: [abs |-> it starts with "/", segs |-> its segments]
ResolveReference(outputPath, reference) ==
    IF reference.scheme = "" /\ reference.lead >= 1
    THEN [abs |-> reference.lead >= 2, segs |-> posixNormalize(reference.segs)]
    ELSE [abs |-> FALSE,
          segs |-> posixJoin(posixDirname(outputPath), ReferencePath(reference))]

\* resolvedPath.startsWith("../") || resolvedPath.startsWith("/")
EscapesRoot(resolved) ==
    \/ resolved.abs
    \/ Len(resolved.segs) >= 2 /\ resolved.segs[1] = DOTDOT

\* the loop over the matches of one page, from match i on
RECURSIVE checkReferencesFrom(_, _, _, _)
checkReferencesFrom(d, outputPath, refs, i) ==
    IF i > Len(refs) THEN Pass
    ELSE LET reference == refs[i].ref
             resolved == ResolveReference(outputPath, reference)
         IN  IF isSkippableReference(reference)
             THEN checkReferencesFrom(d, outputPath, refs, i + 1)
             ELSE IF EscapesRoot(resolved)
             THEN Throw(Err("escapes-root", <<>>, "", 0, outputPath, refs[i].attr, reference))
             ELSE Then(Step(IF Stat(d, resolved.segs) = "file" THEN NoError
                            ELSE Err("broken-reference", <<>>, "", 0, outputPath,
                                     refs[i].attr, reference),
                            <<resolved.segs>>),
                       checkReferencesFrom(d, outputPath, refs, i + 1))

\* only the first page of the map is checked
checkPageHomeOnly(d, page) ==
    IF page.outputPath = HOME_PAGE
    THEN checkReferencesFrom(d, page.outputPath, page.html.refs, 1)
    ELSE Pass

\* the body of the loop over generatedPages
checkPage(d, page) == checkReferencesFrom(d, page.outputPath, page.html.refs, 1)

----------------------------------------------------------------------------
(* The generated-page Map *)

MapHas(m, key) == \E i \in 1..Len(m) : m[i].outputPath = key

\* Map.prototype.set: a present key keeps its place
MapSet(m, key, value) ==
    IF MapHas(m, key)
    THEN [i \in 1..Len(m) |-> IF m[i].outputPath = key
                              THEN [outputPath |-> key, html |-> value] ELSE m[i]]
    ELSE Append(m, [outputPath |-> key, html |-> value])

MapKeys(m) == {m[i].outputPath : i \in 1..Len(m)}

MapGet(m, key) == m[CHOOSE i \in 1..Len(m) : m[i].outputPath = key].html

----------------------------------------------------------------------------
(* The content and the filesystems a run is started with *)

SlugA == <<"a">>
SlugB == <<"b">>
Title == <<"t">>
Plain == <<TextPiece>>
Alt == <<"i">>
\* the string YYYY-MM-DD of a year, a month and a day
DateString(y, m, d) == PadStart(y, 4) \o <<"-">> \o PadStart(m, 2) \o <<"-">> \o PadStart(d, 2)
Date == DateString(2024, 2, 29)

IMG == <<"img">>
ImgLight == RootRef(<< IMG, <<"h", ".png">> >>)
ImgDark == RootRef(<< IMG, <<"h", "-dark", ".png">> >>)
ImgSvg == RootRef(<< IMG, <<"h", ".svg">> >>)
ImgInBlog == RootRef(<< BLOG_DIR, <<"pic", ".png">> >>)
ImgInOss == RootRef(<< OSS_DIR, <<"s", ".png">> >>)
ImgCdnOss == Ref("https", 0, << <<"cdn.example.com">>, OSS_DIR, <<"s", ".png">> >>)
ImgMissing == RootRef(<< IMG, <<"missing", ".png">> >>)
ImgDir == RootRef(<< IMG >>)

ExternalUrl == Ref("https", 0, << <<"example.com">> >>)
RootLink == RootRef(HOME_PAGE)
MissingLink == RootRef(<< <<"missing", ".html">> >>)
ParentLink == RootRef(<< DOTDOT >>)
ClimbLink == LocalRef(<< DOTDOT, <<"x", ".html">> >>)
TweetUrl == Ref("http", 0, << <<"x.com">>, <<"a">>, <<"status">>, <<"1">> >>)
UpperCaseUrl == Ref("HTTPS", 0, << <<"example.com">> >>)

\* hero and first image block are the light and dark variant of one image
PostPair ==
    Post(SlugA, Title, Plain, Date, ImgLight, <<>>, ExternalUrl,
         << Paragraph(<<TextPiece, LinkPiece(ExternalUrl)>>), Image(ImgDark, Alt, NoCaption) >>)
\* no hero; a root-absolute link to a page of the site
PostRootLink ==
    Post(SlugB, Title, Plain, Date, Undefined, << <<"x">> >>, Undefined,
         << Image(ImgSvg, Alt, <<"c">>), Heading(2, Plain),
            Paragraph(<<LinkPiece(RootLink), TextPiece>>) >>)
\* code and tweet blocks
PostCode ==
    Post(SlugB, Title, Plain, Date, ImgLight, <<>>, Undefined,
         << Code("typescript", Plain, NoCaption), Tweet(TweetUrl, NoCaption) >>)
\* a language that names a member of Object.prototype
PostInheritedLanguage ==
    Post(SlugB, Title, Plain, Date, ImgLight, <<>>, Undefined,
         << Code("constructor", Plain, NoCaption) >>)
PostBadDate ==
    Post(SlugA, Title, Plain, DateString(2024, 2, 30), ImgLight, <<>>, Undefined,
         << Paragraph(Plain) >>)
\* white space around the date
PostPaddedDate ==
    Post(SlugB, Title, Plain, <<" ">> \o Date \o <<" ">>, ImgLight, <<>>, Undefined,
         << Paragraph(Plain) >>)
PostNoTitle ==
    Post(SlugA, <<" ">>, Plain, Date, ImgLight, <<>>, Undefined, << Paragraph(Plain) >>)
PostBadSlug ==
    Post(<<"A">>, Title, Plain, Date, ImgLight, <<>>, Undefined, << Paragraph(Plain) >>)
PostNoImage ==
    Post(SlugB, Title, Plain, Date, Undefined, <<>>, Undefined,
         << Paragraph(<<LinkPiece(LocalRef(<< <<"x">> >>))>>) >>)
PostNoBlocks ==
    Post(SlugB, Title, Plain, Date, Undefined, <<>>, Undefined, <<>>)
PostMissingImage ==
    Post(SlugA, Title, Plain, Date, Undefined, <<>>, Undefined,
         << Paragraph(Plain), Image(ImgMissing, Alt, NoCaption) >>)
\* the hero is missing, and so is the image of a block without alt text
PostMissingHero ==
    Post(SlugB, Title, Plain, Date, ImgMissing, <<>>, Undefined,
         << Image(ImgMissing, <<" ">>, NoCaption) >>)
\* the hero is missing, and a paragraph has a link that is no URL
PostBadLinkMissingHero ==
    Post(SlugA, Title, Plain, Date, ImgMissing, <<>>, Undefined,
         << Paragraph(<<TextPiece, LinkPiece(LocalRef(<< <<"x">> >>))>>) >>)
PostImageDir ==
    Post(SlugB, Title, Plain, Date, ImgDir, <<>>, Undefined, << Paragraph(Plain) >>)
\* links that pass validateParagraphLink and do not resolve
\* an http(s) link whose scheme is written in capitals
PostUpperCaseLink ==
    Post(SlugA, Title, Plain, Date, ImgLight, <<>>, Undefined,
         << Paragraph(<<LinkPiece(UpperCaseUrl)>>) >>)
PostMissingLink ==
    Post(SlugB, Title, Plain, Date, ImgLight, <<>>, Undefined,
         << Paragraph(<<LinkPiece(MissingLink)>>) >>)
PostParentLink ==
    Post(SlugA, Title, Plain, Date, ImgLight, <<>>, Undefined,
         << Paragraph(<<LinkPiece(ParentLink)>>) >>)
\* the summary's links are rendered on the home page
PostSummaryClimb ==
    Post(SlugB, Title, <<TextPiece, LinkPiece(ClimbLink)>>, Date, ImgLight, <<>>,
         Undefined, << Paragraph(Plain) >>)
\* images below the directories the build removes
PostImageInBlog ==
    Post(SlugA, Title, Plain, Date, Undefined, <<>>, Undefined,
         << Image(ImgInBlog, Alt, NoCaption) >>)
PostHeroInOss ==
    Post(SlugA, Title, Plain, Date, ImgInOss, <<>>, Undefined,
         << Image(ImgCdnOss, Alt, NoCaption) >>)

PostPool ==
    {PostPair, PostRootLink, PostCode, PostInheritedLanguage, PostBadDate, PostPaddedDate, PostNoTitle, PostBadSlug,
     PostNoImage, PostNoBlocks, PostMissingImage, PostMissingHero, PostImageDir, PostMissingLink,
     PostUpperCaseLink, PostBadLinkMissingHero,
     PostParentLink, PostSummaryClimb, PostImageInBlog, PostHeroInOss}

ContentChoices == UNION {[1..n -> PostPool] : n \in 0..MaxPosts}

ImageFiles ==
    {ImgLight.segs, ImgDark.segs, ImgSvg.segs, ImgInBlog.segs, ImgInOss.segs}

\* the pages an earlier build of other content left behind
StaleFiles ==
    {HOME_PAGE, << BLOG_DIR, <<"old">>, <<"index", ".html">> >>,
     << OSS_DIR, <<"p">>, <<"index", ".html">> >>}

DiskWith(favicon, stale) ==
    LET paths == ImageFiles \cup (IF favicon THEN {FAVICON} ELSE {})
                 \cup (IF stale THEN StaleFiles ELSE {})
    IN  [files |-> [p \in paths |-> IF p \in StaleFiles /\ stale THEN StalePage
                                    ELSE ImageBytes],
         dirs |-> UNION {Prefixes(Front(p)) : p \in paths}]

DiskChoices == {DiskWith(f, s) : f \in BOOLEAN, s \in BOOLEAN}

----------------------------------------------------------------------------
(* buildSite *)

\* no function has been called
NoCall == [fn |-> "none", arg |-> <<>>, result |-> <<>>]

\* the module state of scripts/dev.ts when it is loaded
DevInit ==
    /\ buildProcess = 0
    /\ rebuildQueued = FALSE
    /\ debounceTimer = "null"
    /\ buildCount = 0
    /\ changedPaths = {}
    /\ children = <<>>
    /\ changes = <<>>
    /\ startedAfter = <<>>
    /\ started = FALSE
    /\ eventClients = {}
    /\ lastReload = [build |-> 0, clients |-> {}]
    /\ requests = <<>>

Init ==
    /\ call = NoCall
    /\ DevInit
    /\ blogPosts \in ContentChoices
    /\ disk \in DiskChoices
    /\ pc = "validate"
    /\ generatedPages = <<>>
    /\ postIndex = 1
    /\ checkIndex = 1
    /\ error = NoError
    /\ ops = <<>>
    /\ run = 1
    /\ diskAtStart = disk
    /\ previousOutput = <<>>

StatOps(stats, phase) == [i \in 1..Len(stats) |-> Op("stat", stats[i], phase)]

\* the directories are removed before the content is validated
ValidateAfterRemove ==
    /\ pc = "validate"
    /\ LET r == validateBlogPosts(disk, blogPosts) IN
       /\ ops' = (ops \o << Op("rm", <<BLOG_DIR>>, "write") >>) \o StatOps(r.stats, "validate")
       /\ error' = r.err
       /\ pc' = IF r.err.kind = "none" THEN "highlighter" ELSE "failed"
    /\ disk' = RmRecursive(disk, BLOG_DIR)
    /\ UNCHANGED <<blogPosts, generatedPages, postIndex, checkIndex, run,
                   diskAtStart, previousOutput>>
    /\ UNCHANGED <<call, devVars>>

\* await validateBlogPosts(blogPosts)
Validate ==
    /\ pc = "validate"
    /\ LET r == validateBlogPosts(disk, blogPosts) IN
       /\ ops' = ops \o StatOps(r.stats, "validate")
       /\ error' = r.err
       /\ pc' = IF r.err.kind = "none" THEN "highlighter" ELSE "failed"
    /\ UNCHANGED <<blogPosts, disk, generatedPages, postIndex, checkIndex, run,
                   diskAtStart, previousOutput>>
    /\ UNCHANGED <<call, devVars>>

\* await createBlogCodeHighlighter()
CreateHighlighter ==
    /\ pc = "highlighter"
    /\ pc' = "rmOss"
    /\ UNCHANGED <<blogPosts, disk, generatedPages, postIndex, checkIndex, error,
                   ops, run, diskAtStart, previousOutput>>
    /\ UNCHANGED <<call, devVars>>

\* await rm(path.join(ROOT_DIR, "oss"), { recursive: true, force: true })
RemoveOss ==
    /\ pc = "rmOss"
    /\ disk' = RmRecursive(disk, OSS_DIR)
    /\ ops' = Append(ops, Op("rm", <<OSS_DIR>>, "write"))
    /\ pc' = "rmBlog"
    /\ UNCHANGED <<blogPosts, generatedPages, postIndex, checkIndex, error, run,
                   diskAtStart, previousOutput>>
    /\ UNCHANGED <<call, devVars>>

\* blog/ is left as it is
RemoveBlogSkipped ==
    /\ pc = "rmBlog"
    /\ pc' = "home"
    /\ UNCHANGED <<blogPosts, disk, ops, generatedPages, postIndex, checkIndex, error,
                   run, diskAtStart, previousOutput>>
    /\ UNCHANGED <<call, devVars>>

\* await rm(path.join(ROOT_DIR, "blog"), { recursive: true, force: true })
RemoveBlog ==
    /\ pc = "rmBlog"
    /\ disk' = RmRecursive(disk, BLOG_DIR)
    /\ ops' = Append(ops, Op("rm", <<BLOG_DIR>>, "write"))
    /\ pc' = "home"
    /\ UNCHANGED <<blogPosts, generatedPages, postIndex, checkIndex, error, run,
                   diskAtStart, previousOutput>>
    /\ UNCHANGED <<call, devVars>>

\* the home page: render, generatedPages.set, await writePage
WriteHome ==
    /\ pc = "home"
    /\ LET homeHtml == renderHomePage(HOME_PAGE, blogPosts) IN
       /\ generatedPages' = MapSet(generatedPages, HOME_PAGE, homeHtml)
       /\ disk' = writePage(disk, HOME_PAGE, homeHtml)
       /\ ops' = ops \o writePageOps(HOME_PAGE)
    /\ postIndex' = 1
    /\ pc' = "posts"
    /\ UNCHANGED <<blogPosts, checkIndex, error, run, diskAtStart, previousOutput>>
    /\ UNCHANGED <<call, devVars>>

\* a post whose rendering throws is left out and the loop goes on
WritePostSkipsFailure ==
    /\ pc = "posts"
    /\ postIndex <= Len(blogPosts)
    /\ LET post == blogPosts[postIndex]
           outputPath == blogPostOutputPath(post.slug)
       IN  IF RenderThrows(post)
           THEN /\ postIndex' = postIndex + 1
                /\ UNCHANGED <<generatedPages, disk, ops, error, pc>>
           ELSE LET pageHtml == renderBlogPostPage(outputPath, post) IN
                /\ generatedPages' = MapSet(generatedPages, outputPath, pageHtml)
                /\ disk' = writePage(disk, outputPath, pageHtml)
                /\ ops' = ops \o writePageOps(outputPath)
                /\ postIndex' = postIndex + 1
                /\ UNCHANGED <<error, pc>>
    /\ UNCHANGED <<blogPosts, checkIndex, run, diskAtStart, previousOutput>>
    /\ UNCHANGED <<call, devVars>>

\* one turn of the loop over orderedBlogPosts
WritePost ==
    /\ pc = "posts"
    /\ postIndex <= Len(blogPosts)
    /\ LET post == blogPosts[postIndex]
           outputPath == blogPostOutputPath(post.slug)
       IN  IF RenderThrows(post)
           THEN /\ error' = Err(RenderError(post), post.slug, "", 0, outputPath,
                                "", Undefined)
                /\ pc' = "failed"
                /\ UNCHANGED <<generatedPages, disk, ops, postIndex>>
           ELSE LET pageHtml == renderBlogPostPage(outputPath, post) IN
                /\ generatedPages' = MapSet(generatedPages, outputPath, pageHtml)
                /\ disk' = writePage(disk, outputPath, pageHtml)
                /\ ops' = ops \o writePageOps(outputPath)
                /\ postIndex' = postIndex + 1
                /\ UNCHANGED <<error, pc>>
    /\ UNCHANGED <<blogPosts, checkIndex, run, diskAtStart, previousOutput>>
    /\ UNCHANGED <<call, devVars>>

\* the check is started after the first turn of the loop
StartCheckEarly ==
    /\ pc = "posts"
    /\ postIndex > Min2(1, Len(blogPosts))
    /\ checkIndex' = 1
    /\ pc' = "check"
    /\ UNCHANGED <<blogPosts, disk, generatedPages, postIndex, error, ops, run,
                   diskAtStart, previousOutput>>
    /\ UNCHANGED <<call, devVars>>

\* the loop is over: await validateGeneratedReferences(generatedPages)
StartCheck ==
    /\ pc = "posts"
    /\ postIndex > Len(blogPosts)
    /\ checkIndex' = 1
    /\ pc' = "check"
    /\ UNCHANGED <<blogPosts, disk, generatedPages, postIndex, error, ops, run,
                   diskAtStart, previousOutput>>
    /\ UNCHANGED <<call, devVars>>

\* one turn of the loop over generatedPages
CheckPage ==
    /\ pc = "check"
    /\ checkIndex <= Len(generatedPages)
    /\ LET r == checkPage(disk, generatedPages[checkIndex]) IN
       /\ ops' = ops \o StatOps(r.stats, "check")
       /\ error' = r.err
       /\ pc' = IF r.err.kind = "none" THEN "check" ELSE "failed"
       /\ checkIndex' = IF r.err.kind = "none" THEN checkIndex + 1 ELSE checkIndex
    /\ UNCHANGED <<blogPosts, disk, generatedPages, postIndex, run, diskAtStart,
                   previousOutput>>
    /\ UNCHANGED <<call, devVars>>

\* buildSite returns
Finish ==
    /\ pc = "check"
    /\ checkIndex > Len(generatedPages)
    /\ pc' = "done"
    /\ UNCHANGED <<blogPosts, disk, generatedPages, postIndex, checkIndex, error,
                   ops, run, diskAtStart, previousOutput>>
    /\ UNCHANGED <<call, devVars>>

\* the build command is invoked again on the same content
Rerun ==
    /\ pc \in {"done", "failed"}
    /\ run < MaxRuns
    /\ run' = run + 1
    /\ previousOutput' = IF pc = "done" THEN generatedPages ELSE <<>>
    /\ diskAtStart' = disk
    /\ pc' = "validate"
    /\ generatedPages' = <<>>
    /\ postIndex' = 1
    /\ checkIndex' = 1
    /\ error' = NoError
    /\ ops' = <<>>
    /\ UNCHANGED <<blogPosts, disk>>
    /\ UNCHANGED <<call, devVars>>

Next ==
    \/ Validate
    \/ CreateHighlighter
    \/ RemoveOss
    \/ RemoveBlog
    \/ WriteHome
    \/ WritePost
    \/ StartCheck
    \/ CheckPage
    \/ Finish
    \/ Rerun

Spec == Init /\ [][Next]_vars

----------------------------------------------------------------------------
(* Calls of the pure functions of scripts/build.ts *)

\* buildSite has not been started
BuildIdle ==
    /\ blogPosts = <<>>
    /\ disk = DiskWith(TRUE, FALSE)
    /\ pc = "validate"
    /\ generatedPages = <<>>
    /\ postIndex = 1
    /\ checkIndex = 1
    /\ error = NoError
    /\ ops = <<>>
    /\ run = 1
    /\ diskAtStart = disk
    /\ previousOutput = <<>>

Call(fn, arg, result) == [fn |-> fn, arg |-> arg, result |-> result]

Years == {1900, 2000, 2023, 2024}
Months == {0, 1, 2, 4, 12, 13}
Days == {0, 1, 28, 29, 30, 31, 32}

\* strings of the form YYYY-MM-DD, real dates or not
DateForms == {DateString(y, m, d) : y \in Years, m \in Months, d \in Days}

\* strings with white space around them, and strings of other forms
DateStrings ==
    DateForms
    \cup {<<" ">> \o DateString(y, 2, d) : y \in Years, d \in 28..30}
    \cup {DateString(y, 2, d) \o <<" ">> : y \in Years, d \in 28..30}
    \cup {<<>>, <<" ">>,
          <<"2", "0", "2", "4", "-", "2", "-", "9">>,
          <<"2", "0", "2", "4", "/", "0", "2", "/", "2", "9">>,
          <<"2", "9", "-", "0", "2", "-", "2", "0", "2", "4">>,
          DateString(2024, 2, 29) \o <<"T">>,
          <<"x">> \o DateString(2024, 2, 29)}

CallParsePublishedAt ==
    /\ \E publishedAt \in DateStrings :
          IF MatchesDateForm(Trim(publishedAt))
          THEN \E parsedDate \in DateParseOutcomes(Trim(publishedAt)) :
                  call' = Call("parsePublishedAt", publishedAt,
                               parsePublishedAtWith(publishedAt, parsedDate))
          ELSE call' = Call("parsePublishedAt", publishedAt,
                            parsePublishedAtWith(publishedAt, NaD))
    /\ UNCHANGED <<buildVars, devVars>>

\* paths after the host: status links and others
One == <<"1">>
Status == <<"status">>
StatusPaths ==
    {<<Status, One>>, << <<"a">>, Status, One>>, << <<"i">>, <<"web">>, Status, One>>,
     << <<"i">>, <<"web">>, <<"a">>, Status, <<"1", "0">> >>,
     << <<"a">>, Status, One, <<"photo">>, One>>, << <<"a">>, Status, One, <<>> >>}
OtherPaths ==
    {<<>>, << <<"not-a-status">> >>, << <<"a">>, Status>>, << <<"a">>, Status, <<"x">> >>,
     << <<"a">>, <<"b">>, Status, One>>, << <<"a">>, Status, <<"1", "x">> >>,
     << <<"a", "-", "b">>, Status, One>>}
TweetHosts ==
    {<<"x.com">>, <<"X.COM">>, <<"mobile.twitter.com">>, <<"Twitter.com">>,
     <<"example.com">>, <<"x.com", ".", "example.com">>}
TweetSchemes == {"https", "http", "HTTPS", "ftp", ""}

TweetUrls ==
    {Url(scheme, <<host>> \o << <<"a">>, Status, One>>, "", "") :
        scheme \in TweetSchemes, host \in TweetHosts}
    \cup {Url(scheme, <<host>> \o << <<"not-a-status">> >>, "", "") :
        scheme \in {"https", "http"}, host \in {<<"x.com">>, <<"example.com">>}}
    \cup {Url("http", << <<"x.com">> >> \o p, search, hash) :
        p \in StatusPaths \cup OtherPaths, search \in {"", "?s=20"}, hash \in {"", "#top"}}
    \cup {Undefined, TweetUrl}

TweetBlocks ==
    {Tweet(url, caption) : url \in TweetUrls, caption \in {NoCaption, <<"c">>, <<" ">>}}

\* a tweet block as validateBlogPosts and renderBlogBlock treat it
CallTweetBlock ==
    /\ \E block \in TweetBlocks :
          call' = Call("tweetBlock", block,
                       [validation |-> validateBlock(disk, block, SlugA, 1).err,
                        html |-> renderBlogBlock(blogPostOutputPath(SlugA), block)])
    /\ UNCHANGED <<buildVars, devVars>>

Languages ==
    {"ts", "typescript", "tsx", "js", "javascript", "jsx", "json", "bash", "sh",
     "shell", "TS", " ts ", " ", "python", "constructor", "Constructor", "__proto__",
     "toString"}

\* a code block as validateBlogPosts and renderBlogBlock treat it
CallCodeBlock ==
    /\ \E language \in Languages, caption \in {NoCaption, <<"c">>} :
          LET block == Code(language, Plain, caption) IN
          call' = Call("codeBlock", block,
                       [validation |-> validateBlock(disk, block, SlugA, 1).err,
                        canonical |-> normalizeBlogCodeLanguage(language),
                        render |-> RenderBlockError(block)])
    /\ UNCHANGED <<buildVars, devVars>>

\* the output paths of a home page and of posts
OutputPaths ==
    {HOME_PAGE} \cup {blogPostOutputPath(slug) :
                         slug \in {SlugA, SlugB, <<"a", "-", "b">>, BLOG_DIR, <<"index">>}}

CallRelativeHref ==
    /\ \E a \in OutputPaths, b \in OutputPaths :
          call' = Call("relativeHref", <<a, b>>, relativeHref(a, b))
    /\ UNCHANGED <<buildVars, devVars>>

\* references with a scheme or a fragment, and one to a file
ReferencePool ==
    {ExternalUrl, UpperCaseUrl, Ref("http", 0, << <<"example.com">>, <<"x", ".png">> >>),
     Ref("mailto", 0, << <<"a@example.com">> >>), Ref("tel", 0, << <<"1">> >>),
     Ref("data", 0, << <<"image">>, <<"png;base64,AA">> >>), Ref("#", 0, << <<"top">> >>),
     LocalRef(FAVICON)}

MaxReferences == 2

\* the loop body of validateGeneratedReferences on one page of a map
CallCheckPage ==
    /\ \E outputPath \in {HOME_PAGE, blogPostOutputPath(SlugA)}, n \in 1..MaxReferences :
          \E refs \in [1..n -> ReferencePool] :
             LET page == [outputPath |-> outputPath,
                          html |-> FileData("page", <<>>,
                                            [i \in 1..n |-> Attr("href", refs[i])])]
             IN  call' = Call("checkPage", page, checkPage(disk, page))
    /\ UNCHANGED <<buildVars, devVars>>

PureInit == call = NoCall /\ BuildIdle /\ DevInit

PureNext ==
    \/ CallParsePublishedAt
    \/ CallTweetBlock
    \/ CallCodeBlock
    \/ CallRelativeHref
    \/ CallCheckPage

PureSpec == PureInit /\ [][PureNext]_vars

----------------------------------------------------------------------------
(* Functions of the build script applied once to an input: the input is    *)
(* chosen at the start, the step applies the function                      *)

\* a function and its argument, before the call
Pending(fn, arg) == [fn |-> fn, arg |-> arg]

IsPending(fn) == call.fn = fn /\ DOMAIN call = {"fn", "arg"}

Returned(fn) == call.fn = fn /\ "result" \in DOMAIN call

\* a paragraph is a string with one token per character; "https://" stands
\* for the characters of that prefix
MaxPieces == 3

ParagraphPieces ==
    { <<"a">>, <<"<">>, <<" ">>, <<"[">>, <<"]">>, <<"(">>, <<")">>,
      <<"[", "a", "]", "(", "b", ")">>,
      <<"[", "<", "]", "(", " ", "\"", ")">>,
      <<"[", "&", "]", "(", "https://", "x", "'", " ", ")">> }

\* the paragraphs made of up to max pieces
Paragraphs(max) ==
    {Flatten(pieces) : pieces \in UNION {[1..n -> ParagraphPieces] : n \in 0..max}}

\* the least index from `from` on where the string has the character, or 0
IndexOf(str, char, from) ==
    LET found == {i \in from..Len(str) : str[i] = char}
    IN  IF found = {} THEN 0 ELSE CHOOSE i \in found : \A j \in found : i <= j

NoMatch == [found |-> FALSE, index |-> 0, end |-> 0, label |-> <<>>, href |-> <<>>]

\* MARKDOWN_LINK_PATTERN matched at one position: \[([^\]]+)\]\(([^)]+)\)
MatchAt(str, index) ==
    LET close == IndexOf(str, "]", index + 1)
        end == IndexOf(str, ")", close + 2)
    IN  IF /\ str[index] = "["
           /\ close > index + 1
           /\ close + 1 <= Len(str)
           /\ str[close + 1] = "("
           /\ end > close + 2
        THEN [found |-> TRUE, index |-> index, end |-> end,
              label |-> SubSeq(str, index + 1, close - 1),
              href |-> SubSeq(str, close + 2, end - 1)]
        ELSE NoMatch

\* paragraph.matchAll(MARKDOWN_LINK_PATTERN), scanning from lastIndex
RECURSIVE matchAll(_, _)
matchAll(str, lastIndex) ==
    IF lastIndex > Len(str) THEN <<>>
    ELSE LET match == MatchAt(str, lastIndex) IN
         IF match.found THEN <<match>> \o matchAll(str, match.end + 1)
         ELSE matchAll(str, lastIndex + 1)

\* the output is a sequence of escaped characters and <a> elements
TextItem(char) ==
    [kind |-> "text", text |-> char, href |-> <<>>, external |-> FALSE, label |-> <<>>]

EscapedText(str) == [i \in 1..Len(str) |-> TextItem(escapeHtmlToken(str[i]))]

\* the label is written as it is
markdownLinkToHtmlRawLabel(label, href) ==
    LET trimmedHref == Trim(href) IN
    [kind |-> "a", text |-> "", href |-> escapeHtml(trimmedHref),
     external |-> trimmedHref # <<>> /\ Head(trimmedHref) \in {"http://", "https://"},
     label |-> label]

\* markdownLinkToHtml, on characters
markdownLinkToHtmlChars(label, href) ==
    LET trimmedHref == Trim(href) IN
    [kind |-> "a", text |-> "", href |-> escapeHtml(trimmedHref),
     external |-> trimmedHref # <<>> /\ Head(trimmedHref) \in {"http://", "https://"},
     label |-> escapeHtml(label)]

\* the loop over the matches, from match k on
RECURSIVE renderMatchesFrom(_, _, _, _)
renderMatchesFrom(paragraph, matches, k, cursor) ==
    IF k > Len(matches) THEN EscapedText(SubSeq(paragraph, cursor, Len(paragraph)))
    ELSE EscapedText(SubSeq(paragraph, cursor, matches[k].index - 1))
         \o << markdownLinkToHtmlChars(matches[k].label, matches[k].href) >>
         \o renderMatchesFrom(paragraph, matches, k + 1, matches[k].end + 1)

\* renderParagraphWithInlineLinks, on characters
renderParagraphChars(paragraph) ==
    LET matches == matchAll(paragraph, 1) IN
    IF matches = <<>> THEN EscapedText(paragraph)
    ELSE renderMatchesFrom(paragraph, matches, 1, 1)

ApplyRenderParagraph ==
    /\ IsPending("renderParagraphWithInlineLinks")
    /\ call' = Call(call.fn, call.arg, renderParagraphChars(call.arg))
    /\ UNCHANGED <<buildVars, devVars>>

\* the number of leading characters of the string that are in the set
RECURSIVE RunLength(_, _)
RunLength(str, chars) ==
    IF str # <<>> /\ Head(str) \in chars THEN 1 + RunLength(Tail(str), chars) ELSE 0

Drop(str, n) == SubSeq(str, n + 1, Len(str))

DigitSet == {DigitChars[i] : i \in 1..10}

\* the white space after the marker is not asked for
isListLikeBlogParagraphNoSpace(text) ==
    LET rest == TrimLeft(text)
        digits == RunLength(rest, DigitSet)
    IN  \/ rest # <<>> /\ Head(rest) \in {"-", "*"}
        \/ digits >= 1 /\ Len(rest) > digits /\ rest[digits + 1] = "."

\* BLOG_LIST_LIKE_PARAGRAPH_PATTERN.test(text): /^\s*(?:[-*]\s+|\d+\.\s+)/
isListLikeBlogParagraph(text) ==
    LET rest == TrimLeft(text)
        digits == RunLength(rest, DigitSet)
    IN  \/ /\ Len(rest) >= 2
           /\ rest[1] \in {"-", "*"}
           /\ rest[2] = " "
        \/ /\ digits >= 1
           /\ Len(rest) >= digits + 2
           /\ rest[digits + 1] = "."
           /\ rest[digits + 2] = " "

blogParagraphMarginClass(spacing) ==
    CASE spacing = "list-item" -> "mb-3"
      [] spacing = "list-item-last" -> "mb-6"
      [] OTHER -> "mb-7"

\* the paragraphSpacing renderBlogBlocks passes to renderBlogBlock for the
\* block of index i - 1
paragraphSpacingOf(blocks, i) ==
    IF blocks[i].type # "paragraph" THEN "default"
    ELSE IF ~isListLikeBlogParagraph(blocks[i].text) THEN "default"
    ELSE IF /\ i + 1 <= Len(blocks)
            /\ blocks[i + 1].type = "paragraph"
            /\ isListLikeBlogParagraph(blocks[i + 1].text)
         THEN "list-item"
         ELSE "list-item-last"

\* renderBlogBlocks: the type and, for a paragraph, the margin class of each
\* block rendered
renderBlogBlocksMargins(blocks) ==
    [i \in 1..Len(blocks) |->
        [type |-> blocks[i].type,
         margin |-> IF blocks[i].type = "paragraph"
                    THEN blogParagraphMarginClass(paragraphSpacingOf(blocks, i))
                    ELSE ""]]

MaxBlocks == 3

ListLikeTexts ==
    { <<"-", " ", "a">>, <<" ", "*", " ", " ", "a">>, <<"1", "2", ".", " ", "a">> }

OtherTexts ==
    { <<"a", " ", "-", " ", "b">>, <<"-", "a">>, <<"1", ".", "a">>, <<"1", " ", "a">>,
      <<".", " ", "a">> }

MarginBlocks ==
    {Paragraph(text) : text \in ListLikeTexts \cup OtherTexts}
    \cup {Heading(2, <<"-", " ", "a">>), Image(ImgLight, Alt, NoCaption)}

BlockLists(max) == UNION {[1..n -> MarginBlocks] : n \in 0..max}

ApplyRenderBlogBlocks ==
    /\ IsPending("renderBlogBlocks")
    /\ call' = Call(call.fn, call.arg, renderBlogBlocksMargins(call.arg))
    /\ UNCHANGED <<buildVars, devVars>>

\* posts that pass validation, with and without a hero, whose blocks are
\* paragraphs and images
HeroChoices == {Undefined, ImgLight, ImgDark, ImgSvg, ImgInOss, ImgCdnOss}

HeroBlocks ==
    {Paragraph(Plain)}
    \cup {Image(src, Alt, NoCaption) : src \in {ImgLight, ImgDark, ImgSvg, ImgCdnOss}}

HeroPosts(max) ==
    {post \in {Post(SlugA, Title, Plain, Date, heroImage, <<>>, Undefined, blocks) :
                  heroImage \in HeroChoices,
                  blocks \in UNION {[1..n -> HeroBlocks] : n \in 1..max}} :
        validatePost(DiskWith(TRUE, FALSE), post, {}).err.kind = "none"}

\* renderBlogPostPage: the hero figure, the blocks handed to renderBlogBlocks
\* and the page
ApplyRenderBlogPostPage ==
    /\ IsPending("renderBlogPostPage")
    /\ LET outputPath == blogPostOutputPath(call.arg.slug) IN
       call' = Call(call.fn, call.arg,
                    [hero |-> heroImageMarkup(outputPath, call.arg),
                     blocks |-> blogBlocksToRender(call.arg),
                     page |-> renderBlogPostPage(outputPath, call.arg)])
    /\ UNCHANGED <<buildVars, devVars>>

\* Excalidraw checkpoint entries (scripts/excalidraw-blog-asset.ts): the
\* properties resolveFinalState reads, and x and label as the rest of an
\* element; "absent" is a property the entry does not have
Absent == "absent"

Entry(type, id, x, label, isDeleted, ids, width) ==
    [type |-> type, id |-> id, x |-> x, label |-> label, isDeleted |-> isDeleted,
     ids |-> ids, width |-> width]

Element(type, id, x, label) == Entry(type, id, x, label, FALSE, <<>>, 0)

\* a slot of `resolved` that was set to null
Null == Element("null", Absent, Absent, Absent)

NoCamera == [x |-> Absent, width |-> 0]

MaxEntries == 4

\* delete entries give the pieces of ids between the commas
EntryPool ==
    { Element("rectangle", "a", "1", Absent),
      Element("ellipse", "a", Absent, "l"),
      Element("rectangle", "b", "1", Absent),
      Element("text", Absent, "1", Absent),
      Entry("rectangle", "a", Absent, Absent, TRUE, <<>>, 0),
      Entry("delete", Absent, Absent, Absent, FALSE, << <<" ", "a">>, <<>>, <<"b">> >>, 0),
      Entry("cameraUpdate", Absent, "0", Absent, FALSE, <<>>, 800),
      Entry("cameraUpdate", Absent, "5", Absent, FALSE, <<>>, 400),
      Entry("cameraUpdate", Absent, "9", Absent, FALSE, <<>>, 0),
      Entry("restoreCheckpoint", "a", Absent, Absent, FALSE, <<>>, 0) }

EntryLists(max) == UNION {[1..n -> EntryPool] : n \in 0..max}

\* parseDeleteIds: the pieces trimmed, the empty ones dropped
parseDeleteIds(pieces) ==
    LET trimmed == [i \in 1..Len(pieces) |-> Trim(pieces[i])]
        kept == SelectSeq(trimmed, LAMBDA piece : Len(piece) > 0)
    IN  {kept[i][1] : i \in 1..Len(kept)}

\* parseCamera(element) # null
parseCamera(element) == element.type = "cameraUpdate" /\ element.width > 0

\* { ...previous, ...rawElement }
Spread(previous, rawElement) ==
    [type |-> rawElement.type,
     id |-> rawElement.id,
     x |-> IF rawElement.x # Absent THEN rawElement.x ELSE previous.x,
     label |-> IF rawElement.label # Absent THEN rawElement.label ELSE previous.label,
     isDeleted |-> rawElement.isDeleted,
     ids |-> rawElement.ids,
     width |-> rawElement.width]

\* resolved[index] = null for the ids; indexById.delete(id)
Forget(state, ids) ==
    [state EXCEPT
        !.resolved = [i \in 1..Len(@) |->
                         IF \E id \in ids : id \in DOMAIN state.indexById
                                             /\ state.indexById[id] = i
                         THEN Null ELSE @[i]],
        !.indexById = [id \in DOMAIN @ \ ids |-> @[id]]]

\* a deleted id keeps its index
applyEntryKeepsIndex(state, rawElement) ==
    IF parseCamera(rawElement)
    THEN [state EXCEPT !.camera = [x |-> rawElement.x, width |-> rawElement.width]]
    ELSE IF rawElement.type = "restoreCheckpoint" THEN state
    ELSE IF rawElement.type = "delete"
         THEN [Forget(state, parseDeleteIds(rawElement.ids)) EXCEPT
                  !.indexById = state.indexById]
    ELSE IF rawElement.isDeleted /\ rawElement.id # Absent
         THEN [Forget(state, {rawElement.id}) EXCEPT !.indexById = state.indexById]
    ELSE IF rawElement.id # Absent /\ rawElement.id \in DOMAIN state.indexById
         THEN [state EXCEPT !.resolved[state.indexById[rawElement.id]] =
                                Spread(@, rawElement)]
    ELSE [state EXCEPT
             !.resolved = Append(@, rawElement),
             !.indexById = IF rawElement.id = Absent THEN @
                           ELSE [id \in DOMAIN @ \cup {rawElement.id} |->
                                    IF id = rawElement.id THEN Len(state.resolved) + 1
                                    ELSE @[id]]]

\* the body of the loop of resolveFinalState over the entries
applyEntry(state, rawElement) ==
    IF parseCamera(rawElement)
    THEN [state EXCEPT !.camera = [x |-> rawElement.x, width |-> rawElement.width]]
    ELSE IF rawElement.type = "restoreCheckpoint" THEN state
    ELSE IF rawElement.type = "delete"
         THEN Forget(state, parseDeleteIds(rawElement.ids))
    ELSE IF rawElement.isDeleted /\ rawElement.id # Absent
         THEN Forget(state, {rawElement.id})
    ELSE IF rawElement.id # Absent /\ rawElement.id \in DOMAIN state.indexById
         THEN [state EXCEPT !.resolved[state.indexById[rawElement.id]] =
                                Spread(@, rawElement)]
    ELSE [state EXCEPT
             !.resolved = Append(@, rawElement),
             !.indexById = IF rawElement.id = Absent THEN @
                           ELSE [id \in DOMAIN @ \cup {rawElement.id} |->
                                    IF id = rawElement.id THEN Len(state.resolved) + 1
                                    ELSE @[id]]]

RECURSIVE replayFrom(_, _, _)
replayFrom(state, elements, i) ==
    IF i > Len(elements) THEN state
    ELSE replayFrom(applyEntry(state, elements[i]), elements, i + 1)

CONTROL_TYPES == {"cameraUpdate", "restoreCheckpoint", "delete"}

resolveFinalState(elements) ==
    LET final == replayFrom([camera |-> NoCamera, resolved |-> <<>>, indexById |-> <<>>],
                            elements, 1)
    IN  [camera |-> final.camera,
         drawables |-> SelectSeq(final.resolved, LAMBDA element :
                          /\ element # Null
                          /\ element.type # ""
                          /\ element.type \notin CONTROL_TYPES
                          /\ ~element.isDeleted)]

ApplyResolveFinalState ==
    /\ IsPending("resolveFinalState")
    /\ call' = Call(call.fn, call.arg, resolveFinalState(call.arg))
    /\ UNCHANGED <<buildVars, devVars>>

\* the function and the input of the call
ApplyInputs(pieces, blocks, entries) ==
    {Pending("renderParagraphWithInlineLinks", paragraph) : paragraph \in Paragraphs(pieces)}
    \cup {Pending("renderBlogBlocks", list) : list \in BlockLists(blocks)}
    \cup {Pending("renderBlogPostPage", post) : post \in HeroPosts(blocks)}
    \cup {Pending("resolveFinalState", elements) : elements \in EntryLists(entries)}

ApplyInit ==
    /\ call \in ApplyInputs(MaxPieces, MaxBlocks, MaxEntries)
    /\ BuildIdle
    /\ DevInit

ApplyNext ==
    \/ ApplyRenderParagraph
    \/ ApplyRenderBlogBlocks
    \/ ApplyRenderBlogPostPage
    \/ ApplyResolveFinalState

ApplySpec == ApplyInit /\ [][ApplyNext]_vars

----------------------------------------------------------------------------
(* scripts/dev.ts: the watchers, the debounce timer and the build process *)

MaxChanges == 2

\* what a watcher callback computes as changedPath; the last token is the
\* end of the file name
ChangedPathChoices ==
    {<<"content">>, <<"content/", "a.ts">>, <<"img/", ".DS_Store">>}

\* changedPath.endsWith(".DS_Store")
EndsWithDSStore(changedPath) == Last(changedPath) = ".DS_Store"

\* the variables runBuild and the handlers it installs read and write
DevState ==
    [buildProcess |-> buildProcess, rebuildQueued |-> rebuildQueued,
     buildCount |-> buildCount, children |-> children, startedAfter |-> startedAfter,
     lastReload |-> lastReload]

\* browser sessions
Clients == {"c1", "c2"}

\* how a build process ends: its exit code, "null" when a signal killed it
ExitCodes == {"0", "1", "null"}

ChildStatus(code) ==
    CASE code = "0" -> "exit0"
      [] code = "null" -> "signal"
      [] OTHER -> "exit1"

\* notifyReload: a reload event is written to every client in eventClients
notifyReload(state) ==
    IF eventClients = {} THEN state
    ELSE [state EXCEPT !.lastReload =
              [build |-> state.buildProcess, clients |-> eventClients]]

\* a child is spawned whether or not a build is running
runBuildUnguarded(state, spawned) ==
    [state EXCEPT !.buildCount = @ + 1,
                  !.buildProcess = IF spawned THEN state.buildCount + 1 ELSE 0,
                  !.children = Append(@, IF spawned THEN "running" ELSE "error"),
                  !.startedAfter = Append(@, Len(changes))]

\* runBuild; when spawn fails the child's only event is 'error', emitted on
\* the next tick, before any other callback runs: its handler sets
\* buildProcess to null
runBuild(state, spawned) ==
    IF state.buildProcess # 0
    THEN [state EXCEPT !.rebuildQueued = TRUE]
    ELSE [state EXCEPT !.buildCount = @ + 1,
                       !.buildProcess = IF spawned THEN state.buildCount + 1 ELSE 0,
                       !.children = Append(@, IF spawned THEN "running" ELSE "error"),
                       !.startedAfter = Append(@, Len(changes))]

\* the exit handler forgets the queued rebuild
onExitForgetful(state, code, spawned) ==
    LET notified == IF code = "0" THEN notifyReload(state) ELSE state
    IN  [notified EXCEPT !.buildProcess = 0,
                         !.children[state.buildProcess] = ChildStatus(code),
                         !.rebuildQueued = FALSE]

\* the exit handler notifies the clients whatever the exit code is
onExitAlwaysReloads(state, code, spawned) ==
    LET ended == [notifyReload(state) EXCEPT
                      !.buildProcess = 0,
                      !.children[state.buildProcess] = ChildStatus(code)]
    IN  IF ended.rebuildQueued
        THEN runBuild([ended EXCEPT !.rebuildQueued = FALSE], spawned)
        ELSE ended

\* buildProcess.once("exit", ...)
onExit(state, code, spawned) ==
    LET notified == IF code = "0" THEN notifyReload(state) ELSE state
        ended == [notified EXCEPT !.buildProcess = 0,
                                  !.children[state.buildProcess] = ChildStatus(code)]
    IN  IF ended.rebuildQueued
        THEN runBuild([ended EXCEPT !.rebuildQueued = FALSE], spawned)
        ELSE ended

SetDevState(state) ==
    /\ buildProcess' = state.buildProcess
    /\ rebuildQueued' = state.rebuildQueued
    /\ buildCount' = state.buildCount
    /\ children' = state.children
    /\ startedAfter' = state.startedAfter
    /\ lastReload' = state.lastReload

\* start(): the watchers are installed one after the other, then
\* runBuild("startup") is called
\* the timer's call runBuild(`changed: ${preview}${suffix}`), made after
\* Len(changes) change events; paths are the changed paths of the reason
BuildRequest(reason, paths) == [reason |-> reason, paths |-> paths, after |-> Len(changes)]

Startup ==
    /\ ~started
    /\ started' = TRUE
    /\ \E spawned \in BOOLEAN : SetDevState(runBuild(DevState, spawned))
    /\ UNCHANGED <<debounceTimer, changedPaths, changes, eventClients, requests>>
    /\ UNCHANGED <<buildVars, call>>

\* a watcher callback: scheduleRebuild unless the path ends with .DS_Store
Change ==
    /\ Len(changes) < MaxChanges
    /\ \E changedPath \in ChangedPathChoices :
          /\ changes' = Append(changes, changedPath)
          /\ IF EndsWithDSStore(changedPath)
             THEN UNCHANGED <<changedPaths, debounceTimer>>
             ELSE /\ changedPaths' = changedPaths \cup {changedPath}
                  /\ debounceTimer' = "armed"
    /\ UNCHANGED <<buildProcess, rebuildQueued, buildCount, children, startedAfter,
                   started, eventClients, lastReload, requests>>
    /\ UNCHANGED <<buildVars, call>>

\* changedPaths is not cleared
TimerFiresKeepsPaths ==
    /\ debounceTimer = "armed"
    /\ debounceTimer' = "fired"
    /\ changedPaths' = changedPaths
    /\ \E spawned \in BOOLEAN : SetDevState(runBuild(DevState, spawned))
    /\ requests' = Append(requests, BuildRequest("changed", changedPaths))
    /\ UNCHANGED <<changes, started, eventClients>>
    /\ UNCHANGED <<buildVars, call>>

\* the callback of the debounce timer
TimerFires ==
    /\ debounceTimer = "armed"
    /\ debounceTimer' = "fired"
    /\ changedPaths' = {}
    /\ \E spawned \in BOOLEAN : SetDevState(runBuild(DevState, spawned))
    /\ requests' = Append(requests, BuildRequest("changed", changedPaths))
    /\ UNCHANGED <<changes, started, eventClients>>
    /\ UNCHANGED <<buildVars, call>>

\* the build process ends: the exit handler
BuildExit ==
    /\ buildProcess # 0
    /\ \E code \in ExitCodes, spawned \in BOOLEAN :
          SetDevState(onExit(DevState, code, spawned))
    /\ UNCHANGED <<debounceTimer, changedPaths, changes, started, eventClients,
                   requests>>
    /\ UNCHANGED <<buildVars, call>>

\* setupEventsEndpoint: a browser opens /__dev/events
Connect ==
    /\ \E client \in Clients \ eventClients : eventClients' = eventClients \cup {client}
    /\ UNCHANGED <<buildProcess, rebuildQueued, debounceTimer, buildCount, changedPaths,
                   children, changes, startedAfter, started, lastReload, requests>>
    /\ UNCHANGED <<buildVars, call>>

\* request.on("close"): the browser session ends
Disconnect ==
    /\ \E client \in eventClients : eventClients' = eventClients \ {client}
    /\ UNCHANGED <<buildProcess, rebuildQueued, debounceTimer, buildCount, changedPaths,
                   children, changes, startedAfter, started, lastReload, requests>>
    /\ UNCHANGED <<buildVars, call>>

DevStart == call = NoCall /\ BuildIdle /\ DevInit

DevNext ==
    \/ Startup
    \/ Change
    \/ TimerFires
    \/ BuildExit

DevSpec == DevStart /\ [][DevNext]_vars

\* start() runs to its end, an armed timer fires, a build process ends
DevFairSpec ==
    /\ DevSpec
    /\ WF_vars(Startup)
    /\ WF_vars(TimerFires)
    /\ WF_vars(BuildExit)

\* the dev server with browser sessions opening and closing /__dev/events
DevClientsNext ==
    \/ Startup
    \/ Change
    \/ TimerFires
    \/ BuildExit
    \/ Connect
    \/ Disconnect

DevClientsSpec == DevStart /\ [][DevClientsNext]_vars

----------------------------------------------------------------------------
(* Vocabulary of the properties *)

ValidationErrorKinds ==
    {"missing-field", "invalid-slug", "duplicate-slug", "invalid-publishedAt",
     "empty-image-path", "image-not-found", "image-not-file", "no-blocks",
     "no-share-image", "empty-link", "invalid-link", "invalid-heading-level",
     "unsupported-language", "invalid-tweet-url"}

ReferenceErrorKinds == {"escapes-root", "broken-reference"}

ValidationFailed == pc = "failed" /\ error.kind \in ValidationErrorKinds /\ error.page = <<>>
FailedAfterValidation == pc = "failed" /\ ~ValidationFailed

\* index.html and the blog/ and oss/ trees
PublishedOutput(d) ==
    LET paths == {p \in DOMAIN d.files : p = HOME_PAGE \/ p[1] \in {BLOG_DIR, OSS_DIR}}
    IN  [p \in paths |-> d.files[p]]

MutatingOps == {"rm", "mkdir", "writeFile"}

\* the references of a page that the integrity check does not skip
LocalReferences(page) ==
    {page.html.refs[i].ref : i \in 1..Len(page.html.refs)}
        \ {r \in {page.html.refs[i].ref : i \in 1..Len(page.html.refs)} :
             isSkippableReference(r)}

ResolvesToFile(d, page, reference) ==
    LET resolved == ResolveReference(page.outputPath, reference) IN
    /\ ~resolved.abs
    /\ (resolved.segs = <<>> \/ resolved.segs[1] # DOTDOT)
    /\ posixNormalize(resolved.segs) \in DOMAIN d.files

ExpectedPaths == {HOME_PAGE} \cup {blogPostOutputPath(blogPosts[i].slug) : i \in 1..Len(blogPosts)}

----------------------------------------------------------------------------
(* C1: if buildSite fails after validation has passed, index.html and the  *)
(* blog/ and oss/ trees are exactly as they were before the run.           *)
C1_FailedBuildKeepsPublishedOutput ==
    FailedAfterValidation => PublishedOutput(disk) = PublishedOutput(diskAtStart)

(* C2: when validateBlogPosts rejects the content, buildSite has made no   *)
(* filesystem mutation: no rm, mkdir or writeFile was issued and the tree, *)
(* directories included, is the one the run started with.                  *)
C2_RejectedContentTouchesNothing ==
    ValidationFailed =>
        /\ disk = diskAtStart
        /\ \A i \in 1..Len(ops) : ops[i].op \notin MutatingOps

C2_Witness ==
    /\ ValidationFailed
    /\ error.kind = "invalid-publishedAt"
    /\ << BLOG_DIR, <<"old">>, <<"index", ".html">> >> \in DOMAIN disk.files

C4_NoRootAbsoluteReference ==
    \A i \in 1..Len(generatedPages) :
       \A j \in 1..Len(generatedPages[i].html.refs) :
          LET r == generatedPages[i].html.refs[j].ref IN
          ~(r.scheme = "" /\ r.lead >= 1)

\* a reference leaves the root: by climbing above it, or by starting with "/"
LeavesRoot(page, reference) ==
    \/ reference.scheme = "" /\ reference.lead >= 1
    \/ LET n == posixJoin(posixDirname(page.outputPath), ReferencePath(reference))
       IN  n # <<>> /\ n[1] = DOTDOT

(* C5: the check rejects every reference that leaves the root, by        *)
(* climbing above it or by starting with "/", so a build that succeeds    *)
(* has none.                                                               *)
C5_EscapingReferencesRejected ==
    pc = "done" =>
        \A i \in 1..Len(generatedPages) :
           \A r \in LocalReferences(generatedPages[i]) :
              ~LeavesRoot(generatedPages[i], r)

C7_PhasesOrdered ==
    /\ \A i, j \in 1..Len(ops) :
          i < j => /\ ~(ops[i].phase = "write" /\ ops[j].phase = "validate")
                   /\ ~(ops[i].phase = "check" /\ ops[j].phase # "check")
    /\ (pc = "check" \/ pc = "done" \/ (pc = "failed" /\ error.kind \in ReferenceErrorKinds)) =>
          /\ MapKeys(generatedPages) = ExpectedPaths
          /\ generatedPages[1].html = renderHomePage(HOME_PAGE, blogPosts)
          /\ \A i \in 1..Len(blogPosts) :
                MapGet(generatedPages, blogPostOutputPath(blogPosts[i].slug))
                   = renderBlogPostPage(blogPostOutputPath(blogPosts[i].slug), blogPosts[i])

C7_Witness ==
    /\ pc = "check"
    /\ checkIndex = 2
    /\ Len(blogPosts) = 2
    /\ \E i \in 1..Len(ops) : ops[i].phase = "validate"
    /\ \E i \in 1..Len(ops) : ops[i].phase = "check"

(* C8: a second run on unchanged content and disk succeeds again with the  *)
(* same bytes at every generated path.                                     *)
C8_SecondRunSameOutput ==
    (run >= 2 /\ previousOutput # <<>> /\ pc \in {"done", "failed"}) =>
        /\ pc = "done"
        /\ generatedPages = previousOutput
        /\ \A i \in 1..Len(previousOutput) :
              disk.files[previousOutput[i].outputPath] = previousOutput[i].html


HasDuplicateSlug ==
    \E i, j \in 1..Len(blogPosts) : i < j /\ blogPosts[i].slug = blogPosts[j].slug

\* the index of the first post whose slug an earlier post has
FirstDuplicate ==
    CHOOSE j \in 1..Len(blogPosts) :
        /\ \E i \in 1..(j - 1) : blogPosts[i].slug = blogPosts[j].slug
        /\ \A k \in 1..(j - 1) :
              ~\E i \in 1..(k - 1) : blogPosts[i].slug = blogPosts[k].slug

SlugsBefore(j) == {blogPosts[i].slug : i \in 1..(j - 1)}

\* every post before the j-th passes all of its checks
EarlierPostsPass(j) ==
    \A i \in 1..(j - 1) :
       validatePost(diskAtStart, blogPosts[i], SlugsBefore(i)).err.kind = "none"

NotBlank(text) == \E i \in 1..Len(text) : text[i].kind # "space"

(* C9 as stated: whenever two posts share a slug, validation fails with    *)
(* the duplicate-slug error.                                               *)
C9_DuplicateSlugError ==
    (pc # "validate" /\ HasDuplicateSlug) =>
        ValidationFailed /\ error.kind = "duplicate-slug"

(* C9 amended: whenever two posts share a slug, validation fails; the      *)
(* error is the duplicate-slug error, naming the slug of the first         *)
(* repeated post, exactly when every post before that one passes           *)
(* validation and that post has a non-empty title, summary and             *)
(* publishedAt; otherwise the error of the earlier check is raised.        *)
C9_DuplicateSlugFailsFast ==
    (pc # "validate" /\ HasDuplicateSlug) =>
        /\ ValidationFailed
        /\ LET j == FirstDuplicate IN
           /\ error.kind = "duplicate-slug" <=>
                 /\ EarlierPostsPass(j)
                 /\ Trim(blogPosts[j].title) # <<>>
                 /\ NotBlank(blogPosts[j].summary)
                 /\ Trim(blogPosts[j].publishedAt) # <<>>
           /\ error.kind = "duplicate-slug" => error.slug = blogPosts[j].slug

C9_Witness ==
    /\ HasDuplicateSlug
    /\ ValidationFailed
    /\ error.kind = "duplicate-slug"
    /\ error.slug = SlugA

Imageless(post) ==
    IsFalsy(post.heroImage) /\ \A i \in 1..Len(post.blocks) : post.blocks[i].type # "image"

FirstImageless ==
    CHOOSE j \in 1..Len(blogPosts) :
        Imageless(blogPosts[j]) /\ \A i \in 1..(j - 1) : ~Imageless(blogPosts[i])

\* the checks validateBlogPosts makes on a post without heroImage before
\* it looks at the blocks
ChecksBeforeBlocksPass(post, seenSlugs) ==
    /\ Trim(post.slug) # <<>>
    /\ Trim(post.title) # <<>>
    /\ NotBlank(post.summary)
    /\ Trim(post.publishedAt) # <<>>
    /\ SLUG_PATTERN(post.slug)
    /\ post.slug \notin seenSlugs
    /\ parsePublishedAt(post.publishedAt)
    /\ \A i \in 1..Len(post.tags) : Trim(post.tags[i]) # <<>>

(* C10 as stated: whenever a post has no heroImage and no image block,     *)
(* validation fails with the share-metadata-image error.                   *)
C10_ShareImageError ==
    (pc # "validate" /\ \E i \in 1..Len(blogPosts) : Imageless(blogPosts[i])) =>
        ValidationFailed /\ error.kind = "no-share-image"

(* C10 amended: whenever a post has no heroImage and no image block,       *)
(* validation fails; the error is the share-metadata-image error, naming   *)
(* the first such post, exactly when every post before it passes           *)
(* validation, the post passes the checks made before the blocks are       *)
(* looked at (fields, slug, date, tags) and it has at least one block.     *)
C10_ShareImageFailsFast ==
    (pc # "validate" /\ \E i \in 1..Len(blogPosts) : Imageless(blogPosts[i])) =>
        /\ ValidationFailed
        /\ LET j == FirstImageless IN
           /\ error.kind = "no-share-image" <=>
                 /\ EarlierPostsPass(j)
                 /\ ChecksBeforeBlocksPass(blogPosts[j], SlugsBefore(j))
                 /\ blogPosts[j].blocks # <<>>
           /\ error.kind = "no-share-image" =>
                 error.slug = blogPosts[j].slug /\ error.field = "heroImage"

C10_Witness ==
    /\ ValidationFailed
    /\ error.kind = "no-share-image"
    /\ Len(blogPosts) = 2
    /\ Imageless(blogPosts[2])
    /\ blogPosts[2].blocks # <<>>

ShareImageTags(page) ==
    /\ page.html.meta.twitterCard = "summary_large_image"
    /\ ~IsFalsy(page.html.meta.ogImage)
    /\ ~IsFalsy(page.html.meta.twitterImage)

(* C11: the page rendered for a post that passed validation carries       *)
(* og:image and twitter:image, taken from heroImage or else from the first *)
(* image block, and the twitter:card value summary_large_image.            *)
C11_ShareMetadataHasImage ==
    \A i \in 1..Len(generatedPages) :
       generatedPages[i].outputPath # HOME_PAGE =>
          LET post == generatedPages[i].html.content[1] IN
          /\ ~IsFalsy(resolveBlogShareImage(post))
          /\ resolveBlogShareImage(post) =
                IF ~IsFalsy(post.heroImage) THEN post.heroImage
                ELSE post.blocks[findFirstImageBlock(post.blocks)].src
          /\ ShareImageTags(generatedPages[i])
          /\ generatedPages[i].html.meta.ogImage
                = escapeHtmlRef(toAbsoluteShareImageUrl(resolveBlogShareImage(post)))

C11_Witness ==
    /\ pc = "done"
    /\ \E i \in 1..Len(generatedPages) :
          /\ generatedPages[i].outputPath # HOME_PAGE
          /\ IsFalsy(generatedPages[i].html.content[1].heroImage)
          /\ ShareImageTags(generatedPages[i])
    /\ \E i \in 1..Len(generatedPages) :
          /\ generatedPages[i].outputPath # HOME_PAGE
          /\ ~IsFalsy(generatedPages[i].html.content[1].heroImage)

\* the string has the form YYYY-MM-DD and names a day of the calendar
IsCalendarDate(str) ==
    /\ MatchesDateForm(str)
    /\ NumberOf(SubSeq(str, 6, 7)) \in 1..12
    /\ NumberOf(SubSeq(str, 9, 10)) \in
          1..DaysInMonth(NumberOf(SubSeq(str, 1, 4)), NumberOf(SubSeq(str, 6, 7)))

(* C12 as stated: a publishedAt is accepted only if the string itself is   *)
(* YYYY-MM-DD for a real calendar date, equal byte for byte to the         *)
(* re-serialised date.                                                     *)
C12_OnlyExactDateStrings ==
    (call.fn = "parsePublishedAt" /\ call.result # NaD) =>
        /\ IsCalendarDate(call.arg)
        /\ toISODateString(call.result) = call.arg

(* C12 amended: a publishedAt is accepted exactly when the string, with    *)
(* the white space around it trimmed, is YYYY-MM-DD for a real calendar    *)
(* date, equal to the re-serialised date; 2024-02-30 and 2023-02-29 are    *)
(* rejected and 2024-02-29 is accepted.                                    *)
C12_TrimmedDateRoundTrips ==
    call.fn = "parsePublishedAt" =>
        /\ call.result # NaD <=> IsCalendarDate(Trim(call.arg))
        /\ call.result # NaD => toISODateString(call.result) = Trim(call.arg)
        /\ call.arg \in {DateString(2024, 2, 30), DateString(2023, 2, 29)}
              => call.result = NaD
        /\ call.arg = DateString(2024, 2, 29) => call.result = <<2024, 2, 29>>
        /\ parsePublishedAt(call.arg) <=> IsCalendarDate(Trim(call.arg))

C12_Witness ==
    /\ call.fn = "parsePublishedAt"
    /\ call.arg = <<" ">> \o DateString(2024, 2, 29)
    /\ call.result = <<2024, 2, 29>>

ImagePath(ref) == posixNormalize(normalizeRootRelative(ref).segs)

\* a local path that names no regular file when validation starts
BadLocalImage(ref) ==
    /\ ~IsFalsy(ref)
    /\ ~IsHttp(ref)
    /\ ImagePath(ref) # <<>>
    /\ Stat(diskAtStart, ImagePath(ref)) # "file"

BadHero(j) == BadLocalImage(blogPosts[j].heroImage)

BadImageBlock(j, i) ==
    /\ blogPosts[j].blocks[i].type = "image"
    /\ BadLocalImage(blogPosts[j].blocks[i].src)

ImageErrorKinds == {"image-not-found", "image-not-file"}

ErrorNamesImage(j, fieldName, index) ==
    /\ ValidationFailed
    /\ error.kind \in ImageErrorKinds
    /\ error.slug = blogPosts[j].slug
    /\ error.field = fieldName
    /\ error.index = index

\* the hero image of the j-th post is absent, remote or a regular file
HeroPasses(j) ==
    LET hero == blogPosts[j].heroImage IN
    IsFalsy(hero) \/ IsHttp(hero) \/ Stat(diskAtStart, ImagePath(hero)) = "file"

\* the checks on the i-th block of the j-th post before its file is looked up
ImageFieldsPass(j, i) ==
    LET block == blogPosts[j].blocks[i] IN
    /\ Trim(block.alt) # <<>>
    /\ block.caption = NoCaption \/ Trim(block.caption) # <<>>

BlocksBeforePass(j, i) ==
    validateBlocks(diskAtStart, SubSeq(blogPosts[j].blocks, 1, i - 1),
                   blogPosts[j].slug, 1).err.kind = "none"

(* C13 as stated: for every image block whose local src names no regular   *)
(* file, and for every such local heroImage, validation fails with an      *)
(* error naming the post's slug and the field blocks[i].src or heroImage.  *)
C13_MissingImageNamed ==
    pc # "validate" =>
        \A j \in 1..Len(blogPosts) :
           /\ BadHero(j) => ErrorNamesImage(j, "heroImage", 0)
           /\ \A i \in 1..Len(blogPosts[j].blocks) :
                 BadImageBlock(j, i) => ErrorNamesImage(j, "blocks.src", i - 1)

(* C13 amended: when an image block's local src or a local heroImage names *)
(* no regular file, validation fails; the error names the post's slug and  *)
(* the field blocks[i].src or heroImage when every check made before that  *)
(* image is looked up passes, and an image error always names an image     *)
(* that is not a regular file: not found if absent, not a file otherwise.  *)
C13_MissingImageFailsFast ==
    pc # "validate" =>
        /\ \A j \in 1..Len(blogPosts) :
              /\ BadHero(j) =>
                    /\ ValidationFailed
                    /\ (EarlierPostsPass(j)
                         /\ ChecksBeforeBlocksPass(blogPosts[j], SlugsBefore(j)))
                          => ErrorNamesImage(j, "heroImage", 0)
              /\ \A i \in 1..Len(blogPosts[j].blocks) :
                    BadImageBlock(j, i) =>
                       /\ ValidationFailed
                       /\ (EarlierPostsPass(j)
                            /\ ChecksBeforeBlocksPass(blogPosts[j], SlugsBefore(j))
                            /\ HeroPasses(j)
                            /\ BlocksBeforePass(j, i)
                            /\ ImageFieldsPass(j, i))
                             => ErrorNamesImage(j, "blocks.src", i - 1)
        /\ (ValidationFailed /\ error.kind \in ImageErrorKinds) =>
              \E j \in 1..Len(blogPosts) :
                 /\ error.slug = blogPosts[j].slug
                 /\ LET ref == IF error.field = "heroImage" THEN blogPosts[j].heroImage
                                ELSE blogPosts[j].blocks[error.index + 1].src
                    IN  /\ error.field \in {"heroImage", "blocks.src"}
                        /\ BadLocalImage(ref)
                        /\ error.kind = "image-not-found"
                              <=> Stat(diskAtStart, ImagePath(ref)) = "absent"

C13_Witness ==
    /\ Len(blogPosts) = 2
    /\ Len(blogPosts[2].blocks) = 2
    /\ BadImageBlock(2, 2)
    /\ ErrorNamesImage(2, "blocks.src", 1)
    /\ error.kind = "image-not-found"

\* a directory given as heroImage
C13_WitnessNotFile ==
    /\ Len(blogPosts) >= 1
    /\ BadHero(1)
    /\ ErrorNamesImage(1, "heroImage", 0)
    /\ error.kind = "image-not-file"

\* an http(s) URL on an allowed host whose path is a status link, by cases
IsStatusUrl(url) ==
    /\ url.scheme \in {"http", "https", "HTTP", "HTTPS"}
    /\ url.segs # <<>>
    /\ url.segs[1] \in {<<"x.com">>, <<"X.COM">>, <<"mobile.twitter.com">>,
                         <<"Twitter.com">>}
    /\ Tail(url.segs) \in StatusPaths

TweetPassed == call.result.validation.kind = "none"

(* C14 as stated: a tweet block passes validation exactly when its url is  *)
(* an http(s) status link on an allowed host, any other url gives the      *)
(* invalid-tweet-URL error, and a validated block renders, non-empty, the  *)
(* canonical https URL without query and fragment.                         *)
C14_TweetPassesIffStatusUrl ==
    call.fn = "tweetBlock" =>
        /\ TweetPassed <=> IsStatusUrl(call.arg.url)
        /\ ~IsStatusUrl(call.arg.url) => call.result.validation.kind = "invalid-tweet-url"

(* C14 amended: a tweet block passes validation exactly when its url is an *)
(* http(s) status link on an allowed host and its caption is absent or not *)
(* blank; an absent url gives the missing-field error, any other url that  *)
(* is not such a link the invalid-tweet-URL error; a validated block       *)
(* renders, non-empty, the canonical URL: https, lower-cased host, the     *)
(* same path, no query and no fragment.                                    *)
C14_TweetUrlCanonical ==
    call.fn = "tweetBlock" =>
        LET url == call.arg.url
            caption == call.arg.caption
            err == call.result.validation
        IN  /\ TweetPassed <=>
                  IsStatusUrl(url) /\ (caption = NoCaption \/ Trim(caption) # <<>>)
            /\ IsFalsy(url) =>
                  err.kind = "missing-field" /\ err.field = "blocks.url"
            /\ (~IsFalsy(url) /\ ~IsStatusUrl(url)) =>
                  err.kind = "invalid-tweet-url" /\ err.field = "blocks.url"
            /\ (IsStatusUrl(url) /\ ~TweetPassed) =>
                  err.kind = "missing-field" /\ err.field = "blocks.caption"
            /\ IsStatusUrl(url) <=> call.result.html # <<>>
            /\ TweetPassed =>
                  /\ Len(call.result.html) = 1
                  /\ call.result.html[1].attr = "href"
                  /\ call.result.html[1].ref =
                        Ref("https", 0,
                            << <<toLowerCase(url.segs[1][1])>> >> \o Tail(url.segs))

C14_Witness ==
    /\ call.fn = "tweetBlock"
    /\ TweetPassed
    /\ call.arg.url = Url("http", << <<"x.com">>, <<"a">>, Status, One, <<"photo">>, One>>,
                          "?s=20", "#top")
    /\ call.result.html[1].ref =
          Ref("https", 0, << <<"x.com">>, <<"a">>, Status, One, <<"photo">>, One>>)

\* BLOG_CODE_LANGUAGES
CanonicalIds == {"ts", "tsx", "js", "jsx", "json", "bash"}

(* C15: "typescript" and "ts" have the same canonical id, language strings *)
(* are looked up trimmed and lower-cased, validation accepts a code block  *)
(* exactly when its language has a canonical id, and rendering a block     *)
(* that passed validation does not throw.                                  *)
C15_ValidatedLanguageIsCanonical ==
    call.fn = "codeBlock" =>
        /\ normalizeBlogCodeLanguage("typescript") = normalizeBlogCodeLanguage("ts")
        /\ call.arg.language \in {"TS", " ts "} => call.result.canonical = "ts"
        /\ call.result.validation.kind = "none"
              <=> call.result.canonical \in CanonicalIds
        /\ call.result.validation.kind = "none" => call.result.render = "none"

\* validation accepts a language without canonical id; rendering throws
C15_Refuted ==
    /\ call.fn = "codeBlock"
    /\ call.arg.language = "constructor"
    /\ call.result.validation.kind = "none"
    /\ call.result.canonical \notin CanonicalIds
    /\ call.result.render = "type-error"

(* C16: for two output paths a and b of the generated set, relativeHref(a, *)
(* b) joined onto the directory of a and normalised is the normalised b;   *)
(* it is never empty, and it is index.html when a and b are the same.      *)
C16_RelativeHrefRoundTrip ==
    call.fn = "relativeHref" =>
        LET a == call.arg[1]
            b == call.arg[2]
        IN  /\ posixJoin(posixDirname(a), call.result) = posixNormalize(b)
            /\ call.result # <<>>
            /\ a = b => call.result = HOME_PAGE

C16_Witness ==
    /\ call.fn = "relativeHref"
    /\ call.arg = <<blogPostOutputPath(SlugA), blogPostOutputPath(SlugB)>>
    /\ call.result = <<DOTDOT, SlugB, <<"index", ".html">> >>

\* a page linking to itself
C16_WitnessSame ==
    /\ call.fn = "relativeHref"
    /\ call.arg = <<blogPostOutputPath(SlugA), blogPostOutputPath(SlugA)>>
    /\ call.result = HOME_PAGE

\* an http(s) URL, a mailto:, tel: or data: URI, or a fragment
IsExternalReference(reference) ==
    toLowerCase(reference.scheme) \in {"http", "https", "mailto", "tel", "data", "#"}

(* C17: for a page whose only references are http(s) URLs, mailto:, tel:   *)
(* or data: URIs or fragments, the reference check passes and looks up no  *)
(* file.                                                                   *)
C17_ExternalReferencesSkipped ==
    (/\ call.fn = "checkPage"
     /\ \A i \in 1..Len(call.arg.html.refs) :
           IsExternalReference(call.arg.html.refs[i].ref)) =>
        call.result.err = NoError /\ call.result.stats = <<>>

\* the page of a validated post fails the check on an http(s) link
C17_Refuted ==
    /\ pc = "failed"
    /\ error.kind = "broken-reference"
    /\ error.ref = UpperCaseUrl
    /\ \E i \in 1..Len(ops) : /\ ops[i].op = "stat"
                                /\ ops[i].phase = "check"
                                /\ ops[i].path # <<>>
                                /\ Last(ops[i].path) = <<"example.com">>

\* the href values of the page generated for the i-th post
PostPageHrefs(i) ==
    LET page == MapGet(generatedPages, blogPostOutputPath(blogPosts[i].slug))
    IN  {page.refs[k].ref : k \in {n \in 1..Len(page.refs) : page.refs[n].attr = "href"}}

HomePageHrefs ==
    LET page == MapGet(generatedPages, HOME_PAGE)
    IN  {page.refs[k].ref : k \in {n \in 1..Len(page.refs) : page.refs[n].attr = "href"}}

HomeLink == LocalRef(<<DOTDOT, DOTDOT, <<"index", ".html">> >>)
SiblingLink(slug) == LocalRef(<<DOTDOT, slug, <<"index", ".html">> >>)

\* the links written in the paragraphs of a post
ContentLinks(post) ==
    UNION {Range(LinkHrefs(post.blocks[k].text)) : k \in 1..Len(post.blocks)}

BuildStartedAfter(k) ==
    \E n \in 1..Len(startedAfter) : startedAfter[n] >= k

Unreported == {n \in 1..Len(children) : children[n] = "running"}

(* C20: at most one spawned build has not yet reported exit or error, it   *)
(* is the one buildProcess refers to, and buildProcess is null when there  *)
(* is none.                                                                *)
C20_OneBuildProcess ==
    /\ Cardinality(Unreported) <= 1
    /\ buildProcess # 0 => Unreported = {buildProcess}
    /\ buildProcess = 0 => Unreported = {}
    /\ Len(children) = buildCount

\* runBuild was called while build 2 was running and spawned nothing
C20_Witness ==
    /\ buildProcess = 2
    /\ rebuildQueued
    /\ Unreported = {2}
    /\ Len(children) = 2

(* C21: a reload event is written only in the step in which a build        *)
(* process exits with code 0, and then to every client connected at that   *)
(* moment; no step in which a build ends otherwise, is killed or fails to  *)
(* start writes one.                                                       *)
C21_ReloadOnlyAfterSuccess ==
    [][lastReload' # lastReload =>
          /\ buildProcess # 0
          /\ children'[buildProcess] = "exit0"
          /\ eventClients # {}
          /\ lastReload' = [build |-> buildProcess, clients |-> eventClients]]_vars

\* the last reload written belongs to a build that exited with code 0
C21_ReloadsOfSuccessfulBuilds ==
    lastReload.build # 0 =>
        /\ children[lastReload.build] = "exit0"
        /\ lastReload.clients # {}

\* build 1 failed, build 2 was killed, build 3 succeeded with two clients
C21_Witness ==
    /\ Len(children) >= 3
    /\ children[1] = "exit1"
    /\ children[2] = "signal"
    /\ children[3] = "exit0"
    /\ lastReload = [build |-> 3, clients |-> Clients]

\* block i of post j is a paragraph with a link validateParagraphLink rejects
InvalidLinkIn(j, i) ==
    LET block == blogPosts[j].blocks[i] IN
    /\ block.type = "paragraph"
    /\ NotBlank(block.text)
    /\ validateLinks(LinkHrefs(block.text), blogPosts[j].slug,
                     "blocks.text", i - 1).err.kind # "none"

\* the files stat()ed while the content was validated
ValidationStats ==
    SelectSeq(ops, LAMBDA o : o.op = "stat" /\ o.phase = "validate")

(* C22: the checks of local files come last: a post whose earlier checks   *)
(* pass and that has an invalid inline link in a paragraph reports the     *)
(* link error, whatever the state of its image files, and no file of that  *)
(* post is stat()ed.                                                       *)
C22_LinkErrorBeforeFileChecks ==
    pc # "validate" =>
        \A j \in 1..Len(blogPosts) : \A i \in 1..Len(blogPosts[j].blocks) :
           ( /\ EarlierPostsPass(j)
             /\ ChecksBeforeBlocksPass(blogPosts[j], SlugsBefore(j))
             /\ validateShareImage(blogPosts[j]).err.kind = "none"
             /\ \A k \in 1..(i - 1) : blogPosts[j].blocks[k].type # "image"
             /\ BlocksBeforePass(j, i)
             /\ InvalidLinkIn(j, i) )
           => /\ ValidationFailed
              /\ error.kind \in {"empty-link", "invalid-link"}
              /\ error.slug = blogPosts[j].slug
              /\ error.index = i - 1
              /\ Len(ValidationStats) =
                    Len(validateBlogPosts(diskAtStart, SubSeq(blogPosts, 1, j - 1)).stats)

\* the hero image of the first post was stat()ed and reported missing
\* although a paragraph of the post has an invalid link
C22_Refuted ==
    /\ Len(blogPosts) >= 1
    /\ blogPosts[1] = PostBadLinkMissingHero
    /\ ValidationFailed
    /\ error.kind = "image-not-found"
    /\ error.field = "heroImage"
    /\ ValidationStats = << Op("stat", ImgMissing.segs, "validate") >>

\* the characters escapeHtml replaces
HtmlSpecialChars == {"&", "<", ">", "\"", "'"}

\* the plain-text segment before match k; the one after the last match
\* for k = Len(matches) + 1
SegmentBefore(paragraph, matches, k) ==
    SubSeq(paragraph,
           IF k = 1 THEN 1 ELSE matches[k - 1].end + 1,
           IF k > Len(matches) THEN Len(paragraph) ELSE matches[k].index - 1)

\* the segments escaped and the anchors, in source order
Linearised(paragraph, matches) ==
    Flatten([k \in 1..(2 * Len(matches) + 1) |->
                IF k % 2 = 1
                THEN EscapedText(SegmentBefore(paragraph, matches, (k + 1) \div 2))
                ELSE << [kind |-> "a", text |-> "",
                         href |-> escapeHtml(Trim(matches[k \div 2].href)),
                         external |-> Trim(matches[k \div 2].href) # <<>>
                                      /\ Head(Trim(matches[k \div 2].href))
                                            \in {"http://", "https://"},
                         label |-> escapeHtml(matches[k \div 2].label)] >>])

(* C23: the output of renderParagraphWithInlineLinks is the concatenation, *)
(* in source order, of the escaped plain-text segments between the         *)
(* [label](href) matches and one anchor per match; the matches are in      *)
(* source order and do not overlap, so that segments and matches tile the  *)
(* paragraph; no character of a segment, a label or an href is in the      *)
(* output as a bare <, >, &, " or '.                                       *)
C23_ParagraphLinearised ==
    Returned("renderParagraphWithInlineLinks") =>
        LET paragraph == call.arg
            matches == matchAll(paragraph, 1)
            out == call.result
        IN  /\ out = Linearised(paragraph, matches)
            /\ \A k \in 1..Len(matches) :
                  /\ 1 <= matches[k].index
                  /\ matches[k].index < matches[k].end
                  /\ matches[k].end <= Len(paragraph)
                  /\ k > 1 => matches[k - 1].end < matches[k].index
                  /\ SubSeq(paragraph, matches[k].index, matches[k].end)
                        = <<"[">> \o matches[k].label \o <<"]", "(">>
                          \o matches[k].href \o <<")">>
            /\ Len(SelectSeq(out, LAMBDA item : item.kind = "a")) = Len(matches)
            /\ Len(SelectSeq(out, LAMBDA item : item.kind = "text"))
                  + Len(Flatten([k \in 1..Len(matches) |->
                           SubSeq(paragraph, matches[k].index, matches[k].end)]))
                  = Len(paragraph)
            /\ \A i \in 1..Len(out) :
                  /\ out[i].text \notin HtmlSpecialChars
                  /\ \A j \in 1..Len(out[i].href) : out[i].href[j] \notin HtmlSpecialChars
                  /\ \A j \in 1..Len(out[i].label) : out[i].label[j] \notin HtmlSpecialChars

\* two links with a < between them; the labels and an href have characters
\* to escape, one href is external
C23_Witness ==
    /\ Returned("renderParagraphWithInlineLinks")
    /\ call.arg = <<"[", "<", "]", "(", " ", "\"", ")", "<",
                    "[", "&", "]", "(", "https://", "x", "'", " ", ")">>
    /\ call.result =
          << [kind |-> "a", text |-> "", href |-> <<"&quot;">>, external |-> FALSE,
              label |-> <<"&lt;">>],
             TextItem("&lt;"),
             [kind |-> "a", text |-> "", href |-> <<"https://", "x", "&#39;">>,
              external |-> TRUE, label |-> <<"&amp;">>] >>

\* a [ before a link belongs to the label
C23_WitnessBracket ==
    /\ Returned("renderParagraphWithInlineLinks")
    /\ call.arg = <<"[", "[", "a", "]", "(", "b", ")">>
    /\ Len(call.result) = 1
    /\ call.result[1].label = <<"[", "a">>

\* block i is a paragraph whose text starts with a bullet or a number marker
ListItem(blocks, i) ==
    i \in 1..Len(blocks) /\ blocks[i].type = "paragraph" /\ blocks[i].text \in ListLikeTexts

\* the index of the last block of the maximal run of list items block i is in
RunEnd(blocks, i) ==
    CHOOSE e \in i..Len(blocks) :
       /\ \A k \in i..e : ListItem(blocks, k)
       /\ ~ListItem(blocks, e + 1)

(* C24: in every maximal run of consecutive list-like paragraphs all but   *)
(* the last get the list-item margin (mb-3) and the last gets the          *)
(* list-item-last margin (mb-6); any other paragraph gets the default      *)
(* margin (mb-7) and a block that is no paragraph gets no paragraph margin.*)
C24_ListRunMargins ==
    Returned("renderBlogBlocks") =>
        LET blocks == call.arg
            out == call.result
        IN  /\ Len(out) = Len(blocks)
            /\ \A i \in 1..Len(blocks) :
                  /\ out[i].type = blocks[i].type
                  /\ out[i].margin =
                        IF blocks[i].type # "paragraph" THEN ""
                        ELSE IF ~ListItem(blocks, i) THEN "mb-7"
                        ELSE IF RunEnd(blocks, i) = i THEN "mb-6"
                        ELSE "mb-3"

\* a run of two list items and a plain paragraph
C24_Witness ==
    /\ Returned("renderBlogBlocks")
    /\ call.arg = << Paragraph(<<"-", " ", "a">>), Paragraph(<<"1", "2", ".", " ", "a">>),
                     Paragraph(<<"-", "a">>) >>
    /\ call.result = << [type |-> "paragraph", margin |-> "mb-3"],
                        [type |-> "paragraph", margin |-> "mb-6"],
                        [type |-> "paragraph", margin |-> "mb-7"] >>

\* a heading ends a run, and so does the end of the list
C24_WitnessHeading ==
    /\ Returned("renderBlogBlocks")
    /\ call.arg = << Paragraph(<<"-", " ", "a">>), Heading(2, <<"-", " ", "a">>),
                     Paragraph(<<" ", "*", " ", " ", "a">>) >>
    /\ call.result = << [type |-> "paragraph", margin |-> "mb-6"],
                        [type |-> "heading", margin |-> ""],
                        [type |-> "paragraph", margin |-> "mb-6"] >>

(* C25: when validateBlogPosts accepts the content, the check of the       *)
(* references of the generated pages passes: the build does not fail with  *)
(* a broken or escaping reference.                                         *)
C25_ValidationIsSufficientGate ==
    ~(pc = "failed" /\ error.kind \in ReferenceErrorKinds)

\* the post passed validation with a link to /missing.html, the pages were
\* written, and the reference check reports the link as broken
C25_Refuted ==
    /\ blogPosts = << PostMissingLink >>
    /\ FAVICON \in DOMAIN disk.files
    /\ pc = "failed"
    /\ error.kind = "broken-reference"
    /\ error.page = blogPostOutputPath(SlugB)
    /\ \E i \in 1..Len(ops) : ops[i].op = "writeFile"

\* the local image paths of a post that assertLocalImageExists is asked about
LocalImagePaths(post) ==
    {ImagePath(ref) : ref \in {r \in {post.heroImage}
                                      \cup {post.blocks[i].src : i \in
                                               {k \in 1..Len(post.blocks) :
                                                   post.blocks[k].type = "image"}} :
                                  ~IsFalsy(r) /\ ~IsHttp(r)}}

(* C26: when the reference check runs and when the build ends, every local *)
(* image that passed validation is still the regular file it was when it   *)
(* was validated.                                                          *)
C26_ValidatedImagesKept ==
    pc \in {"check", "done"} =>
        \A j \in 1..Len(blogPosts) : \A p \in LocalImagePaths(blogPosts[j]) :
           /\ p \in DOMAIN disk.files
           /\ disk.files[p] = diskAtStart.files[p]

\* blog/pic.png passed validation and is gone when the references are checked
C26_Refuted ==
    /\ blogPosts = << PostImageInBlog >>
    /\ pc = "check"
    /\ ImgInBlog.segs \in DOMAIN diskAtStart.files
    /\ ImgInBlog.segs \notin DOMAIN disk.files
    /\ \E i \in 1..Len(ops) : ops[i] = Op("stat", ImgInBlog.segs, "validate")

\* images with one normalised identity: /img/h.png and /img/h.svg, and
\* /oss/s.png and its copy on the CDN
SameIdentity(a, b) ==
    \/ a = b
    \/ {a, b} = {ImgLight, ImgSvg}
    \/ {a, b} = {ImgInOss, ImgCdnOss}

\* the light and the dark variant of one image
ThemePair(a, b) ==
    \/ a = ImgDark /\ b \in {ImgLight, ImgSvg}
    \/ b = ImgDark /\ a \in {ImgLight, ImgSvg}

ImageBlockIndexes(post) == {i \in 1..Len(post.blocks) : post.blocks[i].type = "image"}

\* the index of the first image block, 0 when there is none
FirstImageIndex(post) ==
    IF ImageBlockIndexes(post) = {} THEN 0
    ELSE CHOOSE i \in ImageBlockIndexes(post) : \A k \in ImageBlockIndexes(post) : i <= k

SrcOnPage(slug, ref) == escapeHtmlRef(resolveImageSource(blogPostOutputPath(slug), ref))

(* C27: the first image block is left out of the blocks rendered if and    *)
(* only if the hero <picture> is rendered, and that is when heroImage and  *)
(* the first image block are the light and dark variant of one image; the  *)
(* picture then carries both sources, the dark one as srcset. With the     *)
(* same identity the hero figure is omitted and the blocks are all kept.   *)
(* Every image block's source is on the page.                              *)
C27_ImageBlocksShown ==
    Returned("renderBlogPostPage") =>
        LET post == call.arg
            out == call.result
            first == FirstImageIndex(post)
            paired == /\ first # 0
                      /\ ~IsFalsy(post.heroImage)
                      /\ ThemePair(post.heroImage, post.blocks[first].src)
            same == /\ first # 0
                    /\ ~IsFalsy(post.heroImage)
                    /\ SameIdentity(post.heroImage, post.blocks[first].src)
            picture == \E k \in 1..Len(out.hero) : out.hero[k].attr = "srcset"
        IN  /\ picture <=> out.blocks # post.blocks
            /\ picture <=> paired
            /\ paired =>
                  /\ out.blocks = SubSeq(post.blocks, 1, first - 1)
                                    \o SubSeq(post.blocks, first + 1, Len(post.blocks))
                  /\ LET light == IF post.heroImage = ImgDark
                                  THEN post.blocks[first].src ELSE post.heroImage
                     IN  out.hero = << Attr("srcset", SrcOnPage(post.slug, ImgDark)),
                                       Attr("src", SrcOnPage(post.slug, light)) >>
            /\ same => out.hero = <<>> /\ out.blocks = post.blocks
            /\ (~paired /\ ~same) =>
                  out.hero = IF IsFalsy(post.heroImage) THEN <<>>
                             ELSE << Attr("src", SrcOnPage(post.slug, post.heroImage)) >>
            /\ \A i \in ImageBlockIndexes(post) :
                  \E k \in 1..Len(out.page.refs) :
                     /\ out.page.refs[k].attr \in {"src", "srcset"}
                     /\ out.page.refs[k].ref = SrcOnPage(post.slug, post.blocks[i].src)

\* a dark hero over a light first image block: the picture replaces the block
C27_Witness ==
    /\ Returned("renderBlogPostPage")
    /\ call.arg.heroImage = ImgDark
    /\ call.arg.blocks = << Paragraph(Plain), Image(ImgSvg, Alt, NoCaption),
                            Image(ImgDark, Alt, NoCaption) >>
    /\ call.result.blocks = << Paragraph(Plain), Image(ImgDark, Alt, NoCaption) >>
    /\ Len(call.result.hero) = 2

\* hero and first image block have one identity: no hero figure
C27_WitnessSame ==
    /\ Returned("renderBlogPostPage")
    /\ call.arg.heroImage = ImgInOss
    /\ call.arg.blocks = << Image(ImgCdnOss, Alt, NoCaption) >>
    /\ call.result.hero = <<>>
    /\ call.result.blocks = call.arg.blocks

\* the calls of runBuild made by the debounce timer
TimerRequests == SelectSeq(requests, LAMBDA r : r.reason = "changed")

\* the paths scheduleRebuild was called with for the change events
\* from + 1 .. to
Scheduled(from, to) ==
    {changes[k] : k \in {h \in (from + 1)..to : ~EndsWithDSStore(changes[h])}}

\* the number of change events before the burst that timer request i ends
BurstStart(i) == IF i = 1 THEN 0 ELSE TimerRequests[i - 1].after

\* every timer request carries the paths scheduled since the one before,
\* and changedPaths holds those scheduled since the last
BurstsConsumedOnce ==
    /\ \A i \in 1..Len(TimerRequests) :
          /\ BurstStart(i) < TimerRequests[i].after
          /\ TimerRequests[i].paths = Scheduled(BurstStart(i), TimerRequests[i].after)
          /\ TimerRequests[i].paths # {}
    /\ changedPaths = Scheduled(BurstStart(Len(TimerRequests) + 1), Len(changes))
    /\ debounceTimer = "armed" <=> changedPaths # {}

\* a call of scheduleRebuild requests no build, keeps what is recorded and
\* arms the timer; changedPaths is emptied by the timer's request only
DebounceStep ==
    /\ changes' # changes =>
          /\ requests' = requests
          /\ changedPaths \subseteq changedPaths'
          /\ ~EndsWithDSStore(Last(changes')) =>
                Last(changes') \in changedPaths' /\ debounceTimer' = "armed"
    /\ (changedPaths # {} /\ changedPaths' = {}) =>
          /\ debounceTimer = "armed"
          /\ requests' = Append(requests, BuildRequest("changed", changedPaths))

MaxOf(positions) ==
    IF positions = {} THEN 0 ELSE CHOOSE k \in positions : \A h \in positions : h <= k

\* the entry adds or updates an element
IsAddition(entry) == entry.type \notin CONTROL_TYPES /\ ~entry.isDeleted

\* the ids a delete entry names: the one of the entries lists a and b
NamedIds(entry) == IF entry.type = "delete" THEN {"a", "b"} ELSE {}

\* the entry deletes the element of the id
IsDeletion(entry, id) ==
    \/ id \in NamedIds(entry)
    \/ entry.type \notin CONTROL_TYPES /\ entry.isDeleted /\ entry.id = id

\* the additions of entry k's id that no deletion follows up to the end;
\* an entry without id stands alone
LiveAdditions(elements, k) ==
    IF elements[k].id = Absent THEN {k}
    ELSE LET id == elements[k].id
             lastDeletion == MaxOf({j \in 1..Len(elements) : IsDeletion(elements[j], id)})
         IN  {j \in (lastDeletion + 1)..Len(elements) :
                  IsAddition(elements[j]) /\ elements[j].id = id}

\* the value of a property after the entries at the positions were merged
MergedValue(elements, positions, property) ==
    LET having == {j \in positions : elements[j][property] # Absent}
    IN  IF having = {} THEN Absent ELSE elements[MaxOf(having)][property]

\* the element that has its place at position k
ElementAt(elements, k) ==
    LET live == LiveAdditions(elements, k) IN
    Element(elements[MaxOf(live)].type, elements[k].id,
            MergedValue(elements, live, "x"), MergedValue(elements, live, "label"))

\* the first addition of each live element, in the order of the entries
ExpectedDrawables(elements) ==
    LET places == SelectSeq([k \in 1..Len(elements) |-> k], LAMBDA k :
                      /\ IsAddition(elements[k])
                      /\ k \in LiveAdditions(elements, k)
                      /\ \A j \in LiveAdditions(elements, k) : k <= j)
    IN  [n \in 1..Len(places) |-> ElementAt(elements, places[n])]

ExpectedCamera(elements) ==
    LET valid == {k \in 1..Len(elements) :
                     elements[k].type = "cameraUpdate" /\ elements[k].width > 0}
    IN  IF valid = {} THEN NoCamera
        ELSE [x |-> elements[MaxOf(valid)].x, width |-> elements[MaxOf(valid)].width]

(* C29: resolveFinalState returns as drawables exactly the elements whose  *)
(* latest addition no delete entry or isDeleted update of their id         *)
(* follows, each merged from its additions since the last deletion and at  *)
(* the place of the first of them; no control entry and no deleted element *)
(* is among them, no id occurs twice; camera is the last valid             *)
(* cameraUpdate.                                                           *)
C29_FinalStateReplayed ==
    Returned("resolveFinalState") =>
        LET elements == call.arg
            out == call.result
        IN  /\ out.drawables = ExpectedDrawables(elements)
            /\ out.camera = ExpectedCamera(elements)
            /\ \A i \in 1..Len(out.drawables) :
                  /\ out.drawables[i].type \notin CONTROL_TYPES
                  /\ ~out.drawables[i].isDeleted
                  /\ \A j \in 1..Len(out.drawables) :
                        (i # j /\ out.drawables[i].id # Absent)
                           => out.drawables[i].id # out.drawables[j].id

\* a is added, deleted by a delete entry that names it, and added again
\* after b: it comes after b, with the properties of the second addition
C29_Witness ==
    /\ Returned("resolveFinalState")
    /\ call.arg = << Element("rectangle", "a", "1", Absent),
                     Entry("delete", Absent, Absent, Absent, FALSE,
                           << <<" ", "a">>, <<>>, <<"b">> >>, 0),
                     Element("rectangle", "b", "1", Absent),
                     Element("ellipse", "a", Absent, "l") >>
    /\ call.result.drawables = << Element("rectangle", "b", "1", Absent),
                                  Element("ellipse", "a", Absent, "l") >>

\* a later entry of a present id is merged at the place of the first; the
\* camera is the last valid one
C29_WitnessMerge ==
    /\ Returned("resolveFinalState")
    /\ call.arg = << Entry("cameraUpdate", Absent, "5", Absent, FALSE, <<>>, 400),
                     Element("rectangle", "a", "1", Absent),
                     Entry("cameraUpdate", Absent, "9", Absent, FALSE, <<>>, 0),
                     Element("ellipse", "a", Absent, "l") >>
    /\ call.result.drawables = << Element("ellipse", "a", "1", "l") >>
    /\ call.result.camera = [x |-> "5", width |-> 400]

\* the build failed because rendering a post page threw
RenderFailed ==
    pc = "failed" /\ error.page # <<>> /\ error.kind \notin ReferenceErrorKinds

\* after a render failure: nothing was checked, the failing page and the
\* pages of the posts after it are neither generated nor on the disk
RenderFailureKept ==
    RenderFailed =>
        /\ postIndex <= Len(blogPosts)
        /\ error.page = blogPostOutputPath(blogPosts[postIndex].slug)
        /\ \A i \in 1..Len(ops) : ops[i].phase # "check"
        /\ \A k \in postIndex..Len(blogPosts) :
              LET outputPath == blogPostOutputPath(blogPosts[k].slug) IN
              /\ ~MapHas(generatedPages, outputPath)
              /\ outputPath \notin DOMAIN disk.files
              /\ \A i \in 1..Len(ops) : ops[i] # Op("writeFile", outputPath, "write")

\* a post whose rendering throws ends the build in that step, and the
\* reference check starts only when no post threw
RenderFailureStep ==
    /\ (pc = "posts" /\ postIndex <= Len(blogPosts) /\ RenderThrows(blogPosts[postIndex]))
          => (pc' = "failed" /\ RenderFailed')
    /\ (pc # "check" /\ pc' = "check")
          => \A k \in 1..Len(blogPosts) : ~RenderThrows(blogPosts[k])

(* C30: when rendering a page throws, buildSite fails in that step, the    *)
(* reference check is not run, and neither the failing page nor any page   *)
(* after it is written.                                                    *)
C30_RenderFailureFailsBuild ==
    []RenderFailureKept /\ [][RenderFailureStep]_vars

\* the first post passes validation and throws when rendered; the page of
\* the second post is never written, the home page was
C30_Witness ==
    /\ blogPosts = << PostInheritedLanguage, PostPair >>
    /\ RenderFailed
    /\ error.kind = "type-error"
    /\ postIndex = 1
    /\ HOME_PAGE \in DOMAIN disk.files
    /\ blogPostOutputPath(SlugA) \notin DOMAIN disk.files

====
